---- MODULE Spec2Model ----
(***************************************************************************)
(* The CanorusML structural import engine (CACanorusMLImport): the SAX     *)
(* content handler that builds a score graph from open / text / close      *)
(* events, with sign deduplication across voices and deferred resolution   *)
(* of associated-voice indices.                                            *)
(*                                                                         *)
(* Pointers are object ids: the index of the object in the sequence that   *)
(* holds all objects of its class (docs, sheets, contexts, voices, elts).  *)
(* NULL is the null pointer.  The tokenizer is a conformant XML reader:    *)
(* its events are properly nested, but the element kinds may nest in any   *)
(* order (it validates no schema).                                         *)
(***************************************************************************)
EXTENDS Integers, Sequences, FiniteSets, TLC

\* ------------------------------------------------------------- bounds
\* Sizes of the markup the tokenizer delivers: the nesting depth and the
\* number of document elements, then, for each specification, the number
\* of sheets, contexts, voices and music elements.
MaxDepth == 5
MaxNesting == 6
MaxOpen == 7
MaxDocs == 1
RefSheets == 2
RefContexts == 2
RefVoices == 2
RefSyllables == 1
SignSheets == 1
SignContexts == 1
SignVoices == 2
SignSigns == 3
CtxSheets == 1
CtxContexts == 2
CtxVoices == 1
ColSheets == 1
ColContexts == 1
ColVoices == 1
ColNotes == 2

\* ------------------------------------------------------ value domains
NULL == 0
\* What a read past the end of a QList can yield: no object of the graph.
GARBAGE == -1

\* Attribute values the tokenizer may deliver ("" is an absent attribute).
ColorAttrs == {"", "#ff0000", "red", "nocolor"}
IdxAttrs == {"", "-1", "0", "1"}
TimeStartAttrs == {"0", "1"}
ClefTypeAttrs == {"treble", "bass"}
BeatsAttrs == {"4"}
BarlineTypeAttrs == {"single"}
KeySigTypeAttrs == {"major-minor", "modus", "custom"}
ModusAttrs == {"dorian"}
\* Text payloads, as sequences of characters.
VersionTexts ==
    { <<"0", ".", "7", ".", "3">>, <<"0", ".", "8", ".", "0">>,
      <<"0", ".", "7", ".", "4">>, <<"0", ".", "7">>, <<"x">> }

ContextKinds ==
    {"staff", "lyrics-context", "figured-bass-context",
     "function-mark-context", "chord-name-context"}
SignKinds == {"clef", "key-signature", "time-signature", "barline"}

\* ------------------------------------------------------------ helpers
Top(s) == s[Len(s)]
Pop(s) == SubSeq(s, 1, Len(s) - 1)
Range(s) == { s[i] : i \in 1..Len(s) }

RECURSIVE Flatten(_)
Flatten(ss) == IF Len(ss) = 0 THEN <<>> ELSE Head(ss) \o Flatten(Tail(ss))

\* QString::toInt(): the number a decimal string denotes, 0 when the string
\* is empty or is no number.
toInt(s) ==
    CASE s = "-1" -> -1
      [] s = "0" -> 0
      [] s = "1" -> 1
      [] s = "2" -> 2
      [] s = "3" -> 3
      [] s = "4" -> 4
      [] OTHER -> 0

\* QVariant(QString).value<QColor>(): a colour by "#rrggbb" or by SVG name;
\* the invalid (unset) colour QColor() for any other string.
InvalidColor == <<>>
QColorFromString(s) ==
    CASE s = "#ff0000" -> <<255, 0, 0>>
      [] s = "red" -> <<255, 0, 0>>
      [] OTHER -> InvalidColor

Digit(c) ==
    CASE c = "0" -> 0 [] c = "1" -> 1 [] c = "2" -> 2 [] c = "3" -> 3
      [] c = "4" -> 4 [] c = "5" -> 5 [] c = "6" -> 6 [] c = "7" -> 7
      [] c = "8" -> 8 [] c = "9" -> 9 [] OTHER -> -1

\* QVersionNumber::fromString(): the dot-separated leading numbers of the
\* text; parsing stops at the first character that continues no segment.
\* cur is the value of the segment being read, -1 when it has no digit yet.
RECURSIVE ParseSegments(_, _, _, _)
ParseSegments(s, i, cur, acc) ==
    IF i > Len(s)
    THEN IF cur >= 0 THEN Append(acc, cur) ELSE acc
    ELSE IF Digit(s[i]) >= 0
    THEN ParseSegments(s, i + 1,
                       (IF cur < 0 THEN 0 ELSE cur) * 10 + Digit(s[i]), acc)
    ELSE IF s[i] = "." /\ cur >= 0
    THEN ParseSegments(s, i + 1, -1, Append(acc, cur))
    ELSE IF cur >= 0 THEN Append(acc, cur) ELSE acc

QVersionNumberFromString(s) == ParseSegments(s, 1, -1, <<>>)

Min(a, b) == IF a < b THEN a ELSE b

\* QVersionNumber::compare(v1, v2): negative, zero or positive.
RECURSIVE CompareFrom(_, _, _)
CompareFrom(v1, v2, i) ==
    IF i > Min(Len(v1), Len(v2))
    THEN IF Len(v1) > Len(v2)
         THEN IF v1[i] # 0 THEN v1[i] ELSE 1
         ELSE IF Len(v2) > Len(v1)
         THEN IF v2[i] # 0 THEN 0 - v2[i] ELSE -1
         ELSE 0
    ELSE IF v1[i] # v2[i] THEN v1[i] - v2[i]
    ELSE CompareFrom(v1, v2, i + 1)

QVersionNumberCompare(v1, v2) == CompareFrom(v1, v2, 1)

\* QVersionNumber::isPrefixOf(): every segment of p starts v.
IsPrefixOf(p, v) == Len(p) <= Len(v) /\ SubSeq(v, 1, Len(p)) = p

\* ---------------------------------------------------------- variables
VARIABLES
    \* the import call and the tokenizer
    pc,         \* "parsing" | "finished" | "failed" | "fatal" | "crashed" | "returned"
    returned,   \* the document importDocumentImpl() returned
    open,       \* the tokenizer's stack of open elements, outermost first
    ev,         \* the last event delivered: [type, kind, ret]
    \* the score graph
    docs, sheets, contexts, voices, elts,
    \* CACanorusMLImport
    _document, _version, _errorMsg, _depth, _cha, _color,
    _curSheet, _curContext, _curVoice,
    _curKeySig, _curTimeSig, _curClef, _curBarline, _curNote,
    _curMusElt, _prevMusElt,
    _curTuplet,
    _curDiatonicKey, _curPlayableLength, _curDiatonicPitch,
    _curRest, _curTie, _curMark, _curTempoPlayableLength,
    _curSlur, _curPhrasingSlur,
    _lcMap, _syllableMap,
    \* history: the signs the markup declared, in close order
    decls,
    \* a CAMenuToolButton of the main window
    menuToolButton

tokVars == <<pc, returned, open, ev>>
graphVars == <<docs, sheets, contexts, voices, elts>>
cursorVars ==
    <<_curSheet, _curContext, _curVoice, _curKeySig, _curTimeSig, _curClef,
      _curBarline, _curNote, _curMusElt, _prevMusElt, _curTuplet>>
bufVars == <<_curDiatonicKey, _curPlayableLength, _curDiatonicPitch>>
\* The rest, tie and mark cursors and the tempo beat buffer (header, lines
\* 65-84).
auxVars ==
    <<_curRest, _curTie, _curMark, _curTempoPlayableLength, _curSlur,
      _curPhrasingSlur>>
vars ==
    <<pc, returned, open, ev, docs, sheets, contexts, voices, elts,
      _document, _version, _errorMsg, _depth, _cha, _color,
      _curSheet, _curContext, _curVoice, _curKeySig, _curTimeSig, _curClef,
      _curBarline, _curNote, _curMusElt, _prevMusElt, _curTuplet,
      _curDiatonicKey, _curPlayableLength, _curDiatonicPitch,
      _curRest, _curTie, _curMark, _curTempoPlayableLength,
      _curSlur, _curPhrasingSlur,
      _lcMap, _syllableMap, decls, menuToolButton>>

\* QHash<Key*, int>: a function from object ids to numbers.
EmptyMap == [k \in {} |-> 0]
MapInsert(m, k, v) == [x \in (DOMAIN m) \cup {k} |-> IF x = k THEN v ELSE m[x]]

\* CADiatonicKey(), CAPlayableLength(), CADiatonicPitch(): the defaults.
DefaultPlayableLength == "undefined"
DefaultDiatonicPitch == <<>>
\* A key is its root pitch and its gender.
DefaultDiatonicKey == <<DefaultDiatonicPitch, "major">>
\* What the tokenizer's stack keeps of an open element: the attributes the
\* model reads (none here) and, for a sheet, context, tuplet, tie or slur
\* element, the object it built.
NoAttrs == [ts |-> "", attr |-> <<>>, obj |-> NULL]
ObjAttrs(id) == [ts |-> "", attr |-> <<>>, obj |-> id]

\* menutoolbutton.cpp, lines 51-89: the button menu as its constructor
\* leaves it: no buttons, no default action, no current item, not checked.
\* toggled is history: the toggled(checked, id) signals emitted.
NoId == -1
NewMenuToolButton ==
    [_buttonList |-> <<>>, _currentId |-> NoId, defaultAction |-> FALSE,
     actionIcon |-> "", checked |-> FALSE, toggled |-> <<>>,
     \* history: the last call made on the widget
     call |-> [name |-> "", id |-> NoId, triggerSignal |-> FALSE]]

\* The state after construction (initCanorusMLImport) and before parse().
Init ==
    /\ pc = "parsing"
    /\ returned = NULL
    /\ open = <<>>
    /\ ev = [type |-> "none", kind |-> "", ret |-> "true", arg |-> ""]
    /\ docs = <<>>
    /\ sheets = <<>>
    /\ contexts = <<>>
    /\ voices = <<>>
    /\ elts = <<>>
    /\ _document = NULL
    /\ _version = <<>>
    /\ _errorMsg = ""
    /\ _depth = <<>>
    /\ _cha = <<>>
    /\ _color = InvalidColor
    /\ _curSheet = NULL
    /\ _curContext = NULL
    /\ _curVoice = NULL
    /\ _curKeySig = NULL
    /\ _curTimeSig = NULL
    /\ _curClef = NULL
    /\ _curBarline = NULL
    /\ _curNote = NULL
    /\ _curMusElt = NULL
    /\ _prevMusElt = NULL
    /\ _curTuplet = NULL
    /\ _curDiatonicKey = DefaultDiatonicKey
    /\ _curPlayableLength = DefaultPlayableLength
    /\ _curDiatonicPitch = DefaultDiatonicPitch
    /\ _curRest = NULL
    /\ _curTie = NULL
    /\ _curMark = NULL
    /\ _curTempoPlayableLength = DefaultPlayableLength
    /\ _curSlur = NULL
    /\ _curPhrasingSlur = NULL
    /\ _lcMap = EmptyMap
    /\ _syllableMap = EmptyMap
    /\ decls = <<>>
    /\ menuToolButton = NewMenuToolButton

\* ------------------------------------------------- the event protocol
\* The tokenizer delivers an open event while the parse runs.
CanOpen == pc = "parsing" /\ Len(open) < MaxOpen
\* The tokenizer delivers the close event of the innermost open element.
CanClose(kind) == pc = "parsing" /\ Len(open) > 0 /\ Top(open).kind = kind

Event(type, kind, ret) ==
    [type |-> type, kind |-> kind, ret |-> ret, arg |-> ""]

\* The colour with the version test off by one: files of version 0.7.3
\* itself keep their colours.
ColorOfBefore073(color) ==
    IF color # ""
    THEN IF QVersionNumberCompare(_version, <<0, 7, 3>>) < 0
         THEN InvalidColor
         ELSE QColorFromString(color)
    ELSE InvalidColor

\* startElement, lines 159-167: the colour of the element being opened.
ColorOf(color) ==
    IF color # ""
    THEN IF QVersionNumberCompare(_version, <<0, 7, 3>>) <= 0
         THEN InvalidColor
         ELSE QColorFromString(color)
    ELSE InvalidColor

\* startElement, lines 533-534: the handler ran to its end and returns true.
Pushed(kind, a) ==
    /\ _depth' = Append(_depth, kind)
    /\ open' = Append(open, [kind |-> kind, a |-> a])
    /\ ev' = Event("start", kind, "true")
    /\ UNCHANGED <<pc, returned>>

\* A failing handler that pushed the kind before it returned.
StartFailedPushed(kind, msg) ==
    /\ pc' = "failed"
    /\ _errorMsg' = msg
    /\ ev' = Event("start", kind, "false")
    /\ _depth' = Append(_depth, kind)
    /\ UNCHANGED <<returned, open>>

\* A handler sets the error message and returns false: the reader stops.
\* The push at the end of startElement is not reached.
StartFailed(kind, msg) ==
    /\ pc' = "failed"
    /\ _errorMsg' = msg
    /\ ev' = Event("start", kind, "false")
    /\ UNCHANGED <<returned, open, _depth>>

\* A handler dereferences a null pointer: the process dies in the handler.
\* The event keeps the attribute the handler was deciding on.
CrashWith(type, kind, arg) ==
    /\ pc' = "crashed"
    /\ ev' = [Event(type, kind, "crash") EXCEPT !.arg = arg]
    /\ UNCHANGED <<returned, open, graphVars, cursorVars, _document, _version,
                   _errorMsg, _depth, _cha, _color, bufVars, auxVars, _lcMap,
                   _syllableMap, decls, menuToolButton>>

Crash(type, kind) == CrashWith(type, kind, "")

\* The tail of a close handler without the pop of the depth stack.
ClosedWithoutPop(kind) ==
    /\ _cha' = <<>>
    /\ _depth' = _depth
    /\ open' = Pop(open)
    /\ ev' = Event("end", kind, "true")
    /\ pc' = IF Len(open) = 1 THEN "finished" ELSE "parsing"
    /\ UNCHANGED returned

\* endElement, lines 750-757: the tail every close handler runs.
Closed(kind) ==
    /\ _cha' = <<>>
    /\ _depth' = Pop(_depth)
    /\ open' = Pop(open)
    /\ ev' = Event("end", kind, "true")
    /\ pc' = IF Len(open) = 1 THEN "finished" ELSE "parsing"
    /\ UNCHANGED returned

\* endElement, lines 753-756, for a handler that leaves _curMusElt alone.
RestoreMusElt ==
    IF _prevMusElt # NULL
    THEN _curMusElt' = _prevMusElt /\ _prevMusElt' = NULL
    ELSE UNCHANGED <<_curMusElt, _prevMusElt>>

\* ------------------------------------------------------- score graph
\* The sheet built by the innermost sheet element that is open; NULL when
\* no sheet element is open.
EnclosingSheet ==
    LET S == {i \in 1..Len(open) : open[i].kind = "sheet"} IN
    IF S = {} THEN NULL
    ELSE open[CHOOSE i \in S : \A j \in S : j <= i].a.obj

\* A context as its constructor leaves it.  idx and encl are history: the
\* associated-voice-idx attribute and the enclosing sheet of the element.
NewContext(type, sheet, idx) ==
    [contextType |-> type, sheet |-> sheet, voiceList |-> <<>>,
     associatedVoice |-> NULL, syllableList |-> <<>>,
     figuredBassMarkList |-> <<>>, functionMarkList |-> <<>>,
     chordNameList |-> <<>>, idx |-> idx,
     encl |-> EnclosingSheet,
     \* CAContext::_name; nameAttr is history: the name attribute
     name |-> "", nameAttr |-> "",
     \* history: how often synchronizeVoices() ran on the context
     syncs |-> 0]

\* CASheet::staffList(): the staffs among the sheet's contexts, in order.
RECURSIVE StaffsOf(_)
StaffsOf(cs) ==
    IF Len(cs) = 0 THEN <<>>
    ELSE IF contexts[Head(cs)].contextType = "Staff"
    THEN <<Head(cs)>> \o StaffsOf(Tail(cs))
    ELSE StaffsOf(Tail(cs))

staffList(sheet) == StaffsOf(sheets[sheet].contextList)

\* CASheet::voiceList(): the voices of the sheet's staffs, flattened.
voiceList(sheet) ==
    Flatten([i \in 1..Len(staffList(sheet)) |->
                contexts[staffList(sheet)[i]].voiceList])

\* QObject::tr("Kind%1").arg(n): the kind followed by the number in
\* decimal.
ArgName(kind, n) == kind \o ToString(n)

\* startElement, lines 205, 219, 237, 251, 265: the name of a context
\* opened without one.  A staff is numbered by the staffs of the sheet,
\* every other context by all the contexts of the sheet.
ContextName(type) ==
    IF _curSheet = NULL THEN ""
    ELSE IF type = "Staff"
    THEN ArgName("Staff", Len(staffList(_curSheet)) + 1)
    ELSE ArgName(type, Len(sheets[_curSheet].contextList) + 1)

\* ------------------------------------------------------------ actions
\* startElement, "document".
StartDocument(color) ==
    /\ CanOpen
    /\ _color' = ColorOf(color)
    /\ docs' = Append(docs, [sheetList |-> <<>>])
    /\ _document' = Len(docs) + 1
    /\ Pushed("document", NoAttrs)
    /\ UNCHANGED <<sheets, contexts, voices, elts, cursorVars, _version,
                   _errorMsg, _cha, bufVars, auxVars, _lcMap, _syllableMap,
                   decls, menuToolButton>>

\* startElement, "sheet".
StartSheet(color, name) ==
    /\ CanOpen
    /\ IF _document = NULL
       THEN Crash("start", "sheet")
       ELSE /\ _color' = ColorOf(color)
            /\ sheets' = Append(sheets,
                  [document |-> _document, contextList |-> <<>>,
                   closed |-> FALSE,
                   name |-> IF name = ""
                            THEN ArgName("Sheet",
                                         Len(docs[_document].sheetList) + 1)
                            ELSE name,
                   nameAttr |-> name])
            /\ docs' = [docs EXCEPT ![_document].sheetList =
                                        Append(@, Len(sheets) + 1)]
            /\ _curSheet' = Len(sheets) + 1
            /\ Pushed("sheet", ObjAttrs(Len(sheets) + 1))
            /\ UNCHANGED <<contexts, voices, elts, _curContext, _curVoice,
                           _curKeySig, _curTimeSig, _curClef, _curBarline,
                           _curNote, _curMusElt, _prevMusElt, _curTuplet, _document,
                           _version, _errorMsg, _cha, bufVars, auxVars, _lcMap,
                           _syllableMap, decls, menuToolButton>>

\* The context branches of startElement without the check of the sheet
\* cursor: the context is built and becomes the context cursor although no
\* sheet takes it.
OpenContextAnySheet(kind, type, color, idx, name, msg) ==
    /\ _color' = ColorOf(color)
    /\ contexts' = Append(contexts,
          [NewContext(type, _curSheet, idx) EXCEPT
              !.name = IF name = "" THEN ContextName(type) ELSE name,
              !.nameAttr = name])
    /\ _curContext' = Len(contexts) + 1
    /\ _lcMap' = IF type = "LyricsContext" /\ idx # ""
                 THEN MapInsert(_lcMap, Len(contexts) + 1, toInt(idx))
                 ELSE _lcMap
    /\ sheets' = IF _curSheet = NULL THEN sheets
                 ELSE [sheets EXCEPT ![_curSheet].contextList =
                                         Append(@, Len(contexts) + 1)]
    /\ Pushed(kind, ObjAttrs(Len(contexts) + 1))
    /\ UNCHANGED <<docs, voices, elts, _curSheet, _curVoice, _curKeySig,
                   _curTimeSig, _curClef, _curBarline, _curNote, _curMusElt,
                   _prevMusElt, _curTuplet, _document, _version, _cha, bufVars, auxVars,
                   _syllableMap, decls, menuToolButton, _errorMsg>>

\* The part the five context branches of startElement share: the sheet
\* check, the new context, _curContext and CASheet::addContext.
OpenContext(kind, type, color, idx, name, msg) ==
    /\ _color' = ColorOf(color)
    /\ IF _curSheet = NULL
       THEN /\ StartFailed(kind, msg)
            /\ UNCHANGED <<contexts, sheets, _curContext, _lcMap>>
       ELSE /\ contexts' = Append(contexts,
                 [NewContext(type, _curSheet, idx) EXCEPT
                     !.name = IF name = "" THEN ContextName(type) ELSE name,
                     !.nameAttr = name])
            /\ _curContext' = Len(contexts) + 1
            /\ _lcMap' = IF type = "LyricsContext" /\ idx # ""
                         THEN MapInsert(_lcMap, Len(contexts) + 1, toInt(idx))
                         ELSE _lcMap
            /\ sheets' = [sheets EXCEPT ![_curSheet].contextList =
                                            Append(@, Len(contexts) + 1)]
            /\ Pushed(kind, ObjAttrs(Len(contexts) + 1))
            /\ UNCHANGED _errorMsg
    /\ UNCHANGED <<docs, voices, elts, _curSheet, _curVoice, _curKeySig,
                   _curTimeSig, _curClef, _curBarline, _curNote, _curMusElt,
                   _prevMusElt, _curTuplet, _document, _version, _cha, bufVars, auxVars,
                   _syllableMap, decls, menuToolButton>>

\* startElement, "staff".
StartStaff(color, name) ==
    /\ CanOpen
    /\ OpenContext("staff", "Staff", color, "", name,
                "The sheet where to add the staff doesn't exist yet!")

\* startElement, "lyrics-context".
StartLyricsContext(color, idx, name) ==
    /\ CanOpen
    /\ OpenContext("lyrics-context", "LyricsContext", color, idx, name,
                "The sheet where to add the lyrics context doesn't exist yet!")

\* startElement, "figured-bass-context".
StartFiguredBassContext(color, name) ==
    /\ CanOpen
    /\ OpenContext("figured-bass-context", "FiguredBassContext", color, "",
                name,
                "The sheet where to add the figured bass context doesn't exist yet!")

\* startElement, "function-mark-context".
StartFunctionMarkContext(color, name) ==
    /\ CanOpen
    /\ OpenContext("function-mark-context", "FunctionMarkContext", color, "",
                name,
                "The sheet where to add the function mark context doesn't exist yet!")

\* startElement, "chord-name-context".
StartChordNameContext(color, name) ==
    /\ CanOpen
    /\ OpenContext("chord-name-context", "ChordNameContext", color, "",
                name,
                "The sheet where to add the chord name context doesn't exist yet!")

\* startElement, "voice", without the check of the context's type: the
\* voice is added to whatever context the cursor is on.
StartVoiceAnyContext(color, name) ==
    /\ CanOpen
    /\ _color' = ColorOf(color)
    /\ IF _curContext = NULL
       THEN /\ StartFailed("voice",
                   "The context where the voice " \o name
                      \o " should be added doesn't exist yet!")
            /\ UNCHANGED <<contexts, voices, _curVoice>>
       ELSE /\ voices' = Append(voices,
                 [staff |-> _curContext, musElementList |-> <<>>,
                  name |-> IF name = ""
                           THEN ArgName("Voice",
                                   Len(contexts[_curContext].voiceList) + 1)
                           ELSE name,
                  nameAttr |-> name])
            /\ _curVoice' = Len(voices) + 1
            /\ contexts' = [contexts EXCEPT ![_curContext].voiceList =
                                                Append(@, Len(voices) + 1)]
            /\ Pushed("voice", NoAttrs)
            /\ UNCHANGED _errorMsg
    /\ UNCHANGED <<docs, sheets, elts, _curSheet, _curContext, _curKeySig,
                   _curTimeSig, _curClef, _curBarline, _curNote, _curMusElt,
                   _prevMusElt, _curTuplet, _document, _version, _cha, bufVars, auxVars,
                   _lcMap, _syllableMap, decls, menuToolButton>>

\* startElement, "voice".
StartVoice(color, name) ==
    /\ CanOpen
    /\ _color' = ColorOf(color)
    /\ IF _curContext = NULL
       THEN /\ StartFailed("voice",
                   "The context where the voice " \o name
                      \o " should be added doesn't exist yet!")
            /\ UNCHANGED <<contexts, voices, _curVoice>>
       ELSE IF contexts[_curContext].contextType # "Staff"
       THEN /\ StartFailed("voice",
                   "The context type which contains voice " \o name
                      \o " isn't staff!")
            /\ UNCHANGED <<contexts, voices, _curVoice>>
       ELSE /\ voices' = Append(voices,
                 [staff |-> _curContext, musElementList |-> <<>>,
                  name |-> IF name = ""
                           THEN ArgName("Voice",
                                   Len(contexts[_curContext].voiceList) + 1)
                           ELSE name,
                  nameAttr |-> name])
            /\ _curVoice' = Len(voices) + 1
            /\ contexts' = [contexts EXCEPT ![_curContext].voiceList =
                                                Append(@, Len(voices) + 1)]
            /\ Pushed("voice", NoAttrs)
            /\ UNCHANGED _errorMsg
    /\ UNCHANGED <<docs, sheets, elts, _curSheet, _curContext, _curKeySig,
                   _curTimeSig, _curClef, _curBarline, _curNote, _curMusElt,
                   _prevMusElt, _curTuplet, _document, _version, _cha, bufVars, auxVars,
                   _lcMap, _syllableMap, decls, menuToolButton>>

\* startElement for a kind no branch handles (the version element and any
\* unknown element among them): the colour, then the push.
StartOther(kind, color) ==
    /\ CanOpen
    /\ _color' = ColorOf(color)
    /\ Pushed(kind, NoAttrs)
    /\ UNCHANGED <<graphVars, cursorVars, _document, _version, _errorMsg,
                   _cha, bufVars, auxVars, _lcMap, _syllableMap, decls, menuToolButton>>

\* characters().
Characters(ch) ==
    /\ pc = "parsing"
    /\ Len(open) > 0
    /\ _cha' = ch
    /\ ev' = Event("characters", Top(open).kind, "true")
    /\ UNCHANGED <<pc, returned, open, graphVars, cursorVars, _document,
                   _version, _errorMsg, _depth, _color, bufVars, auxVars,
                   _lcMap, _syllableMap, decls, menuToolButton>>

\* endElement, "canorus-version".
EndCanorusVersion ==
    /\ CanClose("canorus-version")
    /\ _version' = QVersionNumberFromString(_cha)
    /\ Closed("canorus-version")
    /\ RestoreMusElt
    /\ UNCHANGED <<graphVars, _curSheet, _curContext, _curVoice, _curKeySig,
                   _curTimeSig, _curClef, _curBarline, _curNote, _curTuplet,
                   _document,
                   _errorMsg, _color, bufVars, auxVars, _lcMap, _syllableMap,
                   decls, menuToolButton>>

\* The contexts the loops of endElement, "document", would visit if the
\* inner loop ran over the sheet's contexts instead of its staffs.
SynchronizedContexts ==
    IF _document = NULL THEN <<>>
    ELSE Flatten([i \in 1..Len(docs[_document].sheetList) |->
                     sheets[docs[_document].sheetList[i]].contextList])

\* endElement, lines 554-558: the staffs the two loops visit, in the order
\* of the calls; none when there is no document.
SynchronizedStaffs ==
    IF _document = NULL THEN <<>>
    ELSE Flatten([i \in 1..Len(docs[_document].sheetList) |->
                     staffList(docs[_document].sheetList[i])])

\* How often the object x occurs in the sequence s.
Occurrences(s, x) == Cardinality({i \in 1..Len(s) : s[i] = x})

\* endElement, "document": CAStaff::synchronizeVoices() runs on every staff
\* of every sheet; it is an external repair pass, the model counts its
\* calls and leaves the import state as it is.
EndDocument ==
    /\ CanClose("document")
    /\ contexts' =
          [c \in DOMAIN contexts |->
              [contexts[c] EXCEPT
                  !.syncs = @ + Occurrences(SynchronizedStaffs, c)]]
    /\ Closed("document")
    /\ RestoreMusElt
    /\ UNCHANGED <<docs, sheets, voices, elts, _curSheet, _curContext,
                   _curVoice, _curKeySig,
                   _curTimeSig, _curClef, _curBarline, _curNote, _curTuplet,
                   _document,
                   _version, _errorMsg, _color, bufVars, auxVars, _lcMap,
                   _syllableMap, decls, menuToolButton>>

\* A valid position of a voice list (0-based, as the markup counts).
InRange(i, vs) == 0 <= i /\ i < Len(vs)

\* endElement, "sheet": resolve the recorded voice indices against the
\* sheet's voices, clear both maps and the sheet cursor (closed is history:
\* the sheet element has been closed).  QList::at() with
\* an index that is out of range reads past the list: the build either
\* stops there (assertion, fault) or goes on with whatever it read.
EndSheet ==
    /\ CanClose("sheet")
    /\ IF _curSheet = NULL
       THEN Crash("end", "sheet")
       ELSE LET vs == voiceList(_curSheet) IN
            \/ /\ \E c \in DOMAIN _lcMap : ~InRange(_lcMap[c], vs)
               /\ Crash("end", "sheet")
            \/ /\ contexts' =
                     [c \in DOMAIN contexts |->
                        IF c \in DOMAIN _lcMap
                        THEN [contexts[c] EXCEPT !.associatedVoice =
                                 IF InRange(_lcMap[c], vs)
                                 THEN vs[_lcMap[c] + 1] ELSE GARBAGE]
                        ELSE contexts[c]]
               /\ elts' =
                     [e \in DOMAIN elts |->
                        IF e \in DOMAIN _syllableMap
                           /\ _syllableMap[e] >= 0
                           /\ _syllableMap[e] < Len(vs)
                        THEN [elts[e] EXCEPT !.associatedVoice =
                                 vs[_syllableMap[e] + 1]]
                        ELSE elts[e]]
               /\ _lcMap' = EmptyMap
               /\ _syllableMap' = EmptyMap
               /\ _curSheet' = NULL
               /\ Closed("sheet")
               /\ RestoreMusElt
               /\ sheets' = [sheets EXCEPT ![Top(open).a.obj].closed = TRUE]
               /\ UNCHANGED <<docs, voices, _curContext, _curVoice,
                              _curKeySig, _curTimeSig, _curClef, _curBarline,
                              _curNote, _curTuplet, _document, _version,
                              _errorMsg, _color, bufVars, auxVars, decls, menuToolButton>>

\* endElement, "staff".
EndStaff ==
    /\ CanClose("staff")
    /\ _curContext' = NULL
    /\ Closed("staff")
    /\ RestoreMusElt
    /\ UNCHANGED <<graphVars, _curSheet, _curVoice, _curKeySig, _curTimeSig,
                   _curClef, _curBarline, _curNote, _curTuplet, _document,
                   _version, _errorMsg, _color, bufVars, auxVars, _lcMap, _syllableMap,
                   decls, menuToolButton>>

\* endElement, "voice".
EndVoice ==
    /\ CanClose("voice")
    /\ _curVoice' = NULL
    /\ Closed("voice")
    /\ RestoreMusElt
    /\ UNCHANGED <<graphVars, _curSheet, _curContext, _curKeySig, _curTimeSig,
                   _curClef, _curBarline, _curNote, _curTuplet, _document,
                   _version, _errorMsg, _color, bufVars, auxVars, _lcMap, _syllableMap,
                   decls, menuToolButton>>

\* The kinds whose close event only runs the tail of endElement.
TailOnlyKinds ==
    {"lyrics-context", "figured-bass-context", "function-mark-context",
     "chord-name-context", "syllable", "figured-bass-mark", "head",
     "canorus-document",
     "playable-length", "diatonic-pitch", "tie", "annotation",
     "slur-start", "slur-end", "phrasing-slur-start", "phrasing-slur-end"}

\* endElement for a kind no branch handles.
EndOther ==
    /\ pc = "parsing"
    /\ Len(open) > 0
    /\ Top(open).kind \in TailOnlyKinds
    /\ Closed(Top(open).kind)
    /\ RestoreMusElt
    /\ UNCHANGED <<graphVars, _curSheet, _curContext, _curVoice, _curKeySig,
                   _curTimeSig, _curClef, _curBarline, _curNote, _curTuplet,
                   _document, _version, _errorMsg, _color, bufVars, auxVars, _lcMap,
                   _syllableMap, decls, menuToolButton>>

\* QXmlSimpleReader reports malformed markup: fatalError() returns false
\* and parse() ends.
FatalError ==
    /\ pc = "parsing"
    /\ pc' = "fatal"
    /\ ev' = Event("fatal", "", "false")
    /\ UNCHANGED <<returned, open, graphVars, cursorVars, _document, _version,
                   _errorMsg, _depth, _cha, _color, bufVars, auxVars, _lcMap,
                   _syllableMap, decls, menuToolButton>>

\* importDocumentImpl, lines 120-129: parse() has returned (the markup
\* ended, a handler returned false, or the reader met a fatal error) and
\* the call returns document().
ImportReturn ==
    /\ pc \in {"finished", "failed", "fatal"}
    /\ pc' = "returned"
    /\ returned' = _document
    /\ ev' = Event("return", "", IF pc = "finished" THEN "true" ELSE "false")
    /\ UNCHANGED <<open, graphVars, cursorVars, _document, _version,
                   _errorMsg, _depth, _cha, _color, bufVars, auxVars, _lcMap,
                   _syllableMap, decls, menuToolButton>>

\* ------------------------------------------------------ music elements
\* The tuplets whose element is open: the objects the open tuplet elements
\* built, outermost first.
OpenTuplets ==
    SelectSeq([i \in 1..Len(open) |->
                  IF open[i].kind = "tuplet" THEN open[i].a.obj ELSE NULL],
              LAMBDA t : t # NULL)

\* A music element as its constructor leaves it.  deleted marks an object
\* the import has released; idx and encl are history, as for a context,
\* and so are colorAttr and versionAtOpen: the color attribute of the
\* element and the version in force when it was opened.
NewElt(type, ts, attr, context, colorAttr) ==
    [musElementType |-> type, timeStart |-> ts, attr |-> attr,
     color |-> InvalidColor, deleted |-> FALSE, context |-> context,
     voice |-> NULL, associatedVoice |-> NULL, idx |-> "",
     encl |-> EnclosingSheet, colorAttr |-> colorAttr,
     versionAtOpen |-> _version,
     playableLength |-> DefaultPlayableLength,
     diatonicPitch |-> DefaultDiatonicPitch, timeLength |-> 0,
     tuplet |-> NULL, chord |-> FALSE,
     \* history: the buffered length and pitch at the close event
     bufAtClose |-> <<>>,
     \* CANote::_tieStart, CANote::_tieEnd, CASlur::_noteStart, _noteEnd
     tieStart |-> NULL, tieEnd |-> NULL, noteStart |-> NULL, noteEnd |-> NULL,
     \* CANote::_slurStart, _slurEnd, _phrasingSlurStart, _phrasingSlurEnd
     slurStart |-> NULL, slurEnd |-> NULL,
     phrasingSlurStart |-> NULL, phrasingSlurEnd |-> NULL,
     \* CAMark::_markType, CAMark::_associatedElt, CAMusElement::_markList
     markType |-> "", associatedElt |-> NULL, markList |-> <<>>,
     \* CATuplet::_noteList; derived is history: the close event of the
     \* element computed its time length from its playable length
     noteList |-> <<>>, derived |-> FALSE,
     \* history: the tuplets whose element was open at the open event
     within |-> Range(OpenTuplets),
     \* history: the kinds of the buffer elements (playable-length,
     \* diatonic-pitch) the markup nests in the note or rest
     nested |-> {}]

\* The open events of elements that the markup has delivered so far: the
\* signs declared and closed, and every sign element still open.
SignEvents ==
    Len(decls) + Cardinality({i \in 1..Len(open) : open[i].kind \in SignKinds})

\* startElement, "syllable".  The context cursor is cast to a lyrics
\* context unchecked: a null cursor faults in addSyllable(); a context of
\* another kind is written to as if it were a lyrics context, which faults
\* or goes on with that context's own lists untouched.
StartSyllable(color, ts, idx) ==
    /\ CanOpen
    /\ IF _curContext = NULL
       THEN Crash("start", "syllable")
       ELSE \/ /\ contexts[_curContext].contextType # "LyricsContext"
               /\ Crash("start", "syllable")
            \/ /\ _color' = ColorOf(color)
               /\ elts' = Append(elts,
                     [NewElt("Syllable", toInt(ts), <<>>, _curContext, color)
                        EXCEPT !.color = ColorOf(color), !.idx = idx])
               /\ contexts' =
                     IF contexts[_curContext].contextType = "LyricsContext"
                     THEN [contexts EXCEPT ![_curContext].syllableList =
                                               Append(@, Len(elts) + 1)]
                     ELSE contexts
               /\ _syllableMap' =
                     IF idx # ""
                     THEN MapInsert(_syllableMap, Len(elts) + 1, toInt(idx))
                     ELSE _syllableMap
               /\ _curMusElt' = Len(elts) + 1
               /\ Pushed("syllable", NoAttrs)
               /\ UNCHANGED <<docs, sheets, voices, _curSheet, _curContext,
                              _curVoice, _curKeySig, _curTimeSig, _curClef,
                              _curBarline, _curNote, _prevMusElt, _curTuplet,
                              _document, _version, _errorMsg, _cha, bufVars, auxVars,
                              _lcMap, decls, menuToolButton>>

\* ------------------------------------------------------------- signs
\* CAClef::clefTypeFromString, CAKeySignature::keySignatureTypeFromString,
\* CAKeySignature::modusFromString, CABarline::barlineTypeFromString: the
\* enumerator an attribute string names.
ClefTypeFromString(s) ==
    CASE s = "treble" -> "Treble" [] s = "bass" -> "Bass" [] OTHER -> "Treble"
KeySignatureTypeFromString(s) ==
    CASE s = "major-minor" -> "MajorMinor"
      [] s = "modus" -> "Modus"
      [] s = "custom" -> "Custom"
      [] OTHER -> "MajorMinor"
ModusFromString(s) == CASE s = "dorian" -> "Dorian" [] OTHER -> "Ionian"
BarlineTypeFromString(s) ==
    CASE s = "single" -> "Single" [] s = "double" -> "Double"
      [] OTHER -> "Undefined"

\* The attributes of a sign element as the markup declares them.
SignAttrs(ts, attr) == [ts |-> ts, attr |-> attr, obj |-> NULL]

\* The part the sign branches of startElement share once the sign object
\* is built: the element cursor and the push.
OpenSign(kind, ts, attr) ==
    /\ _curMusElt' = Len(elts) + 1
    /\ Pushed(kind, SignAttrs(ts, attr))
    /\ UNCHANGED <<docs, sheets, contexts, voices, _curSheet, _curContext,
                   _curVoice, _curNote, _prevMusElt, _curTuplet, _document,
                   _version, _errorMsg, _cha, bufVars, auxVars, _lcMap, _syllableMap,
                   decls, menuToolButton>>

\* startElement, "clef".
StartClef(color, ts, ct) ==
    /\ CanOpen
    /\ IF _curVoice = NULL
       THEN Crash("start", "clef")
       ELSE /\ _color' = ColorOf(color)
            /\ elts' = Append(elts,
                  [NewElt("Clef", toInt(ts), <<ClefTypeFromString(ct)>>,
                          voices[_curVoice].staff, color)
                     EXCEPT !.color = ColorOf(color)])
            /\ _curClef' = Len(elts) + 1
            /\ OpenSign("clef", ts, <<ct>>)
            /\ UNCHANGED <<_curKeySig, _curTimeSig, _curBarline>>

\* startElement, "time-signature".
StartTimeSignature(color, ts, beats) ==
    /\ CanOpen
    /\ IF _curVoice = NULL
       THEN Crash("start", "time-signature")
       ELSE /\ _color' = ColorOf(color)
            /\ elts' = Append(elts,
                  [NewElt("TimeSignature", toInt(ts), <<toInt(beats)>>,
                          voices[_curVoice].staff, color)
                     EXCEPT !.color = ColorOf(color)])
            /\ _curTimeSig' = Len(elts) + 1
            /\ OpenSign("time-signature", ts, <<beats>>)
            /\ UNCHANGED <<_curKeySig, _curClef, _curBarline>>

\* startElement, "barline": the one sign branch that sets no colour.
StartBarline(color, ts, bt) ==
    /\ CanOpen
    /\ IF _curVoice = NULL
       THEN Crash("start", "barline")
       ELSE /\ _color' = ColorOf(color)
            /\ elts' = Append(elts,
                  NewElt("Barline", toInt(ts), <<BarlineTypeFromString(bt)>>,
                         voices[_curVoice].staff, color))
            /\ _curBarline' = Len(elts) + 1
            /\ OpenSign("barline", ts, <<bt>>)
            /\ UNCHANGED <<_curKeySig, _curTimeSig, _curClef>>

\* startElement, "key-signature".  The Custom case builds no object: the
\* key-signature cursor keeps the value an earlier key signature left in
\* it, and the colour is set through it.
StartKeySignature(color, ts, kst, modus) ==
    /\ CanOpen
    /\ LET type == KeySignatureTypeFromString(kst) IN
       IF type = "Custom"
       THEN IF _curKeySig = NULL
            THEN Crash("start", "key-signature")
            ELSE /\ _color' = ColorOf(color)
                 /\ elts' = [elts EXCEPT ![_curKeySig].color = ColorOf(color)]
                 /\ _curMusElt' = _curKeySig
                 /\ Pushed("key-signature", SignAttrs(ts, <<kst>>))
                 /\ UNCHANGED <<docs, sheets, contexts, voices, _curSheet,
                                _curContext, _curVoice, _curKeySig,
                                _curTimeSig, _curClef, _curBarline, _curNote,
                                _prevMusElt, _curTuplet, _document, _version,
                                _errorMsg, _cha, bufVars, auxVars, _lcMap,
                                _syllableMap, decls, menuToolButton>>
       ELSE IF _curVoice = NULL
       THEN Crash("start", "key-signature")
       ELSE /\ _color' = ColorOf(color)
            /\ elts' = Append(elts,
                  [NewElt("KeySignature", toInt(ts),
                          IF type = "Modus"
                          THEN <<"Modus", ModusFromString(modus)>>
                          ELSE <<"MajorMinor", DefaultDiatonicKey>>,
                          voices[_curVoice].staff, color)
                     EXCEPT !.color = ColorOf(color)])
            /\ _curKeySig' = Len(elts) + 1
            /\ OpenSign("key-signature", ts,
                        IF type = "Modus" THEN <<kst, modus>> ELSE <<kst>>)
            /\ UNCHANGED <<_curTimeSig, _curClef, _curBarline>>

\* CAStaff::getEltByType(type, time): the elements of that type and start
\* time in the staff's voices, in voice order.
getEltByType(staff, type, time, es) ==
    SelectSeq(Flatten([i \in 1..Len(contexts[staff].voiceList) |->
                         voices[contexts[staff].voiceList[i]].musElementList]),
              LAMBDA e : es[e].musElementType = type /\ es[e].timeStart = time)

\* CAMusElement::compare(): 0 when the two elements have the same
\* properties.
compare(a, b) ==
    IF a.musElementType = b.musElementType /\ a.attr = b.attr THEN 0 ELSE 1

\* endElement, lines 593-601 and their three copies: the first element
\* found that compares equal to the candidate and is not in the current
\* voice yet; NULL when there is none.
FoundSign(cur, es) ==
    LET foundElts == getEltByType(_curContext, es[cur].musElementType,
                                  es[cur].timeStart, es)
        same == SelectSeq(foundElts,
                   LAMBDA e : /\ compare(es[e], es[cur]) = 0
                              /\ e \notin Range(voices[_curVoice].musElementList))
    IN  IF Len(same) = 0 THEN NULL ELSE Head(same)

\* The guard of the four sign branches of endElement.
SignGuard ==
    /\ _curContext # NULL
    /\ _curVoice # NULL
    /\ contexts[_curContext].contextType = "Staff"

\* The lookup reads every element of the staff's voices: one that was
\* deleted is read after its release.
ReadsFreed(staff) ==
    \E i \in 1..Len(contexts[staff].voiceList) :
       \E e \in Range(voices[contexts[staff].voiceList[i]].musElementList) :
          elts[e].deleted

\* A sign branch of endElement returns false; it sets no error message.
EndFailed(kind) ==
    /\ pc' = "failed"
    /\ ev' = Event("end", kind, "false")
    /\ UNCHANGED <<returned, open, graphVars, cursorVars, _document, _version,
                   _errorMsg, _depth, _cha, _color, bufVars, auxVars, _lcMap,
                   _syllableMap, decls, menuToolButton>>

\* What the markup declared by the sign element being closed, and what the
\* close event did with it: the object linked into the voice (obj) and the
\* candidate the cursor held (cand).
Declared(kind, cur, sign) ==
    [staff |-> _curContext, voice |-> _curVoice, kind |-> kind,
     ts |-> toInt(Top(open).a.ts), attr |-> Top(open).a.attr,
     direct |-> Len(open) >= 2 /\ open[Len(open) - 1].kind = "voice",
     cand |-> cur, obj |-> IF sign = NULL THEN cur ELSE sign]

\* endElement, lines 603-611 and their three copies: link the candidate
\* or the sign found into the current voice; delete the candidate when a
\* sign was found.
LinkSign(kind, cur, es) ==
    LET sign == FoundSign(cur, es) IN
    /\ voices' = [voices EXCEPT ![_curVoice].musElementList =
                     Append(@, IF sign = NULL THEN cur ELSE sign)]
    /\ elts' = IF sign = NULL THEN es
               ELSE [es EXCEPT ![cur].deleted = TRUE]
    /\ decls' = Append(decls, Declared(kind, cur, sign))
    /\ UNCHANGED menuToolButton
    /\ Closed(kind)
    /\ RestoreMusElt
    /\ UNCHANGED <<docs, sheets, contexts, _curSheet, _curContext, _curVoice,
                   _curNote, _curTuplet, _document, _version, _errorMsg,
                   _color, bufVars, auxVars, _lcMap, _syllableMap>>

\* endElement, "clef".
EndClef ==
    /\ CanClose("clef")
    /\ IF ~SignGuard THEN EndFailed("clef")
       ELSE IF _curClef = NULL THEN Crash("end", "clef")
       ELSE \/ /\ ReadsFreed(_curContext)
               /\ Crash("end", "clef")
            \/ /\ LinkSign("clef", _curClef, elts)
               /\ _curClef' = IF FoundSign(_curClef, elts) = NULL
                              THEN _curClef ELSE NULL
               /\ UNCHANGED <<_curKeySig, _curTimeSig, _curBarline>>

\* endElement, "key-signature".
EndKeySignature ==
    /\ CanClose("key-signature")
    /\ IF ~SignGuard THEN EndFailed("key-signature")
       ELSE IF _curKeySig = NULL THEN Crash("end", "key-signature")
       ELSE LET es == IF elts[_curKeySig].attr[1] = "MajorMinor"
                      THEN [elts EXCEPT ![_curKeySig].attr =
                                           <<"MajorMinor", _curDiatonicKey>>]
                      ELSE elts
            IN
            \/ /\ ReadsFreed(_curContext)
               /\ Crash("end", "key-signature")
            \/ /\ LinkSign("key-signature", _curKeySig, es)
               /\ _curKeySig' = IF FoundSign(_curKeySig, es) = NULL
                                THEN _curKeySig ELSE NULL
               /\ UNCHANGED <<_curTimeSig, _curClef, _curBarline>>

\* endElement, "time-signature".
EndTimeSignature ==
    /\ CanClose("time-signature")
    /\ IF ~SignGuard THEN EndFailed("time-signature")
       ELSE IF _curTimeSig = NULL THEN Crash("end", "time-signature")
       ELSE \/ /\ ReadsFreed(_curContext)
               /\ Crash("end", "time-signature")
            \/ /\ LinkSign("time-signature", _curTimeSig, elts)
               /\ _curTimeSig' = IF FoundSign(_curTimeSig, elts) = NULL
                                 THEN _curTimeSig ELSE NULL
               /\ UNCHANGED <<_curKeySig, _curClef, _curBarline>>

\* endElement, "barline".
EndBarline ==
    /\ CanClose("barline")
    /\ IF ~SignGuard THEN EndFailed("barline")
       ELSE IF _curBarline = NULL THEN Crash("end", "barline")
       ELSE \/ /\ ReadsFreed(_curContext)
               /\ Crash("end", "barline")
            \/ /\ LinkSign("barline", _curBarline, elts)
               /\ _curBarline' = IF FoundSign(_curBarline, elts) = NULL
                                 THEN _curBarline ELSE NULL
               /\ UNCHANGED <<_curKeySig, _curTimeSig, _curClef>>

\* ------------------------------------- elements of the other contexts
\* The part the open handlers of a figured-bass mark and a function mark
\* share: the element is built on the context cursor, cast unchecked to
\* the context class that owns the kind, and added to that context's list.
\* A null cursor faults in the add call; a context of another class is
\* written to as if it were of the owning class, which faults or goes on
\* with that context's own lists untouched.
StartOwned(kind, type, owner, listField, color, ts, attr) ==
    /\ CanOpen
    /\ IF _curContext = NULL
       THEN Crash("start", kind)
       ELSE \/ /\ contexts[_curContext].contextType # owner
               /\ Crash("start", kind)
            \/ /\ _color' = ColorOf(color)
               /\ elts' = Append(elts,
                     [NewElt(type, toInt(ts), attr, _curContext, color)
                        EXCEPT !.color = ColorOf(color)])
               /\ contexts' =
                     IF contexts[_curContext].contextType = owner
                     THEN [contexts EXCEPT ![_curContext][listField] =
                                               Append(@, Len(elts) + 1)]
                     ELSE contexts
               /\ _curMusElt' = Len(elts) + 1
               /\ Pushed(kind, SignAttrs(ts, <<color>>))
               /\ UNCHANGED <<docs, sheets, voices, _curSheet, _curContext,
                              _curVoice, _curKeySig, _curTimeSig, _curClef,
                              _curBarline, _curNote, _prevMusElt, _curTuplet,
                              _document, _version, _errorMsg, _cha, bufVars,
                              auxVars, _lcMap, _syllableMap, decls,
                              menuToolButton>>

\* startElement, "figured-bass-mark".
StartFiguredBassMark(color, ts) ==
    StartOwned("figured-bass-mark", "FiguredBassMark", "FiguredBassContext",
               "figuredBassMarkList", color, ts, <<>>)

\* startElement, "function-mark".  A file of version 0.5 carries the key
\* as an attribute ("C" when absent); later files start with the default
\* key and take it from the key buffer at the close event.
StartFunctionMark(color, ts, key) ==
    StartOwned("function-mark", "FunctionMark", "FunctionMarkContext",
               "functionMarkList", color, ts,
               <<IF IsPrefixOf(<<0, 5>>, _version)
                 THEN (IF key = "" THEN "C" ELSE key)
                 ELSE DefaultDiatonicKey>>)

\* startElement, "chord-name": the chord name is built with the default
\* pitch on the context cursor, cast unchecked; the context is not
\* touched before the close event.
StartChordName(color, ts, modifier) ==
    /\ CanOpen
    /\ _color' = ColorOf(color)
    /\ elts' = Append(elts,
          [NewElt("ChordName", toInt(ts), <<modifier>>, _curContext, color)
             EXCEPT !.color = ColorOf(color)])
    /\ _curMusElt' = Len(elts) + 1
    /\ Pushed("chord-name", SignAttrs(ts, <<color>>))
    /\ UNCHANGED <<docs, sheets, contexts, voices, _curSheet, _curContext,
                   _curVoice, _curKeySig, _curTimeSig, _curClef, _curBarline,
                   _curNote, _prevMusElt, _curTuplet, _document, _version,
                   _errorMsg, _cha, bufVars, auxVars, _lcMap, _syllableMap,
                   decls, menuToolButton>>

\* endElement, "function-mark": a function mark of a file that is not of
\* version 0.5 takes its key from the key buffer.  The element cursor is
\* dereferenced unchecked.
EndFunctionMark ==
    /\ CanClose("function-mark")
    /\ IF ~IsPrefixOf(<<0, 5>>, _version) /\ _curMusElt = NULL
       THEN Crash("end", "function-mark")
       ELSE /\ elts' =
                 IF /\ ~IsPrefixOf(<<0, 5>>, _version)
                    /\ elts[_curMusElt].musElementType = "FunctionMark"
                 THEN [elts EXCEPT ![_curMusElt].attr = <<_curDiatonicKey>>]
                 ELSE elts
            /\ Closed("function-mark")
            /\ RestoreMusElt
            /\ UNCHANGED <<docs, sheets, contexts, voices, _curSheet,
                           _curContext, _curVoice, _curKeySig, _curTimeSig,
                           _curClef, _curBarline, _curNote, _curTuplet,
                           _document, _version, _errorMsg, _color, bufVars,
                           auxVars, _lcMap, _syllableMap, decls,
                           menuToolButton>>

\* endElement, "chord-name": the element cursor is cast to a chord name
\* and the context cursor to a chord-name context, both unchecked; the
\* chord name takes the buffered pitch and is added to the context.  A
\* null cursor faults; an object of another class is written to as if it
\* were of the class named, which faults or goes on.
EndChordName ==
    /\ CanClose("chord-name")
    /\ IF _curMusElt = NULL \/ _curContext = NULL
       THEN Crash("end", "chord-name")
       ELSE \/ /\ \/ elts[_curMusElt].musElementType # "ChordName"
                  \/ contexts[_curContext].contextType # "ChordNameContext"
               /\ Crash("end", "chord-name")
            \/ /\ elts' =
                     [elts EXCEPT ![_curMusElt] =
                        [@ EXCEPT !.diatonicPitch = _curDiatonicPitch,
                                  !.bufAtClose = <<_curPlayableLength,
                                                   _curDiatonicPitch>>]]
               /\ contexts' =
                     IF contexts[_curContext].contextType = "ChordNameContext"
                     THEN [contexts EXCEPT ![_curContext].chordNameList =
                                               Append(@, _curMusElt)]
                     ELSE contexts
               /\ Closed("chord-name")
               /\ RestoreMusElt
               /\ UNCHANGED <<docs, sheets, voices, _curSheet, _curContext,
                              _curVoice, _curKeySig, _curTimeSig, _curClef,
                              _curBarline, _curNote, _curTuplet, _document,
                              _version, _errorMsg, _color, bufVars, auxVars,
                              _lcMap, _syllableMap, decls, menuToolButton>>

\* --------------------------------------------------------------- notes
\* CAVoice::lastNote(): the last note of the voice's element list.
lastNote(voice) ==
    LET notes == SelectSeq(voices[voice].musElementList,
                           LAMBDA e : elts[e].musElementType = "Note")
    IN  IF Len(notes) = 0 THEN NULL ELSE notes[Len(notes)]

\* CAPlayableLength::musicLengthFromString: the length an attribute names.
musicLengthFromString(s) ==
    CASE s = "quarter" -> "quarter" [] s = "half" -> "half"
      [] OTHER -> "undefined"

\* CAPlayable::calculateTimeLength(): the time a playable length lasts.
calculateTimeLength(pl) ==
    CASE pl = "quarter" -> 256 [] pl = "half" -> 512 [] OTHER -> 0

\* The shape test with the version number ordered against 0.5 instead.
AttributeShapeBefore05 == QVersionNumberCompare(_version, <<0, 5>>) < 0
\* startElement, lines 353 and 427, endElement, lines 701 and 724: the test
\* QVersionNumber(0, 5).isPrefixOf(_version) that picks the shape of a
\* note or a rest.
AttributeShape == IsPrefixOf(<<0, 5>>, _version)

\* startElement, lines 370-373 and 441-444: CATuplet::addNote() for the
\* element about to be built, when a tuplet is open.
addNote(es, tuplet, note) ==
    IF tuplet = NULL THEN es
    ELSE [es EXCEPT ![tuplet].noteList = Append(@, note)]

\* A close event that derives the time length of every note and rest.
DerivesTimeLengthAlways(e) == TRUE

\* endElement, lines 703 and 726: the time length is derived at the close
\* event unless the element belongs to a tuplet.
DerivesTimeLength(e) == elts[e].tuplet = NULL

\* startElement, "note".  A file of version 0.5 carries the pitch and the
\* length as attributes of the note; later files carry them as nested
\* elements and the note starts with the defaults.
StartNote(color, ts, pitch, len) ==
    /\ CanOpen
    /\ _color' = ColorOf(color)
    /\ elts' = Append(addNote(elts, _curTuplet, Len(elts) + 1),
          [NewElt("Note", toInt(ts), <<pitch, len>>,
                  IF _curVoice = NULL THEN NULL ELSE voices[_curVoice].staff,
                  color)
             EXCEPT !.color = ColorOf(color), !.voice = _curVoice,
                    !.tuplet = _curTuplet,
                    !.diatonicPitch = IF AttributeShape
                                      THEN <<toInt(pitch), 0>>
                                      ELSE DefaultDiatonicPitch,
                    !.playableLength = IF AttributeShape
                                       THEN musicLengthFromString(len)
                                       ELSE DefaultPlayableLength])
    /\ _curNote' = Len(elts) + 1
    /\ _curMusElt' = Len(elts) + 1
    /\ Pushed("note", [SignAttrs(ts, <<color>>) EXCEPT !.obj = Len(elts) + 1])
    /\ UNCHANGED <<docs, sheets, contexts, voices, _curSheet, _curContext,
                   _curVoice, _curKeySig, _curTimeSig, _curClef, _curBarline,
                   _prevMusElt, _curTuplet, _document, _version, _errorMsg,
                   _cha, bufVars, auxVars, _lcMap, _syllableMap, decls, menuToolButton>>

\* CANote::updateTies(), run on a note once it is in its voice: when the
\* note before it in the voice starts a tie that has no end note yet and
\* has this note's pitch, this note becomes the tie's end.
updateTies(es, before, note) ==
    LET prior == SelectSeq(before, LAMBDA e : es[e].musElementType = "Note")
        left == IF Len(prior) = 0 THEN NULL ELSE prior[Len(prior)]
        tie == IF left = NULL THEN NULL ELSE es[left].tieStart
    IN  IF /\ tie # NULL
           /\ es[tie].noteEnd = NULL
           /\ es[left].diatonicPitch = es[note].diatonicPitch
        THEN [es EXCEPT ![tie].noteEnd = note, ![note].tieEnd = tie]
        ELSE es

\* A test against the element the voice took last, of whatever kind.
AddToChordAfterLastElement(note) ==
    LET l == voices[_curVoice].musElementList IN
    /\ Len(l) > 0
    /\ elts[l[Len(l)]].timeStart = elts[note].timeStart

\* endElement, lines 710-713: the note joins the chord of the voice's
\* last note when both start at the same time (the second argument of
\* CAVoice::append).
AddToChord(note) ==
    /\ lastNote(_curVoice) # NULL
    /\ elts[lastNote(_curVoice)].timeStart = elts[note].timeStart

\* endElement, "note".
EndNote ==
    /\ CanClose("note")
    /\ IF _curNote = NULL \/ _curVoice = NULL
       THEN Crash("end", "note")
       ELSE /\ elts' = updateTies(
                 [elts EXCEPT ![_curNote] =
                    [(IF AttributeShape THEN elts[_curNote]
                      ELSE [elts[_curNote] EXCEPT
                              !.playableLength = _curPlayableLength,
                              !.timeLength =
                                  IF DerivesTimeLength(_curNote)
                                  THEN calculateTimeLength(_curPlayableLength)
                                  ELSE elts[_curNote].timeLength,
                              !.derived = DerivesTimeLength(_curNote),
                              !.diatonicPitch = _curDiatonicPitch])
                       EXCEPT !.chord = AddToChord(_curNote),
                              !.bufAtClose =
                                 <<_curPlayableLength, _curDiatonicPitch>>]],
                 voices[_curVoice].musElementList, _curNote)
            /\ voices' = [voices EXCEPT ![_curVoice].musElementList =
                                            Append(@, _curNote)]
            /\ _curNote' = NULL
            /\ Closed("note")
            /\ RestoreMusElt
            /\ UNCHANGED <<docs, sheets, contexts, _curSheet, _curContext,
                           _curVoice, _curKeySig, _curTimeSig, _curClef,
                           _curBarline, _curTuplet, _document, _version,
                           _errorMsg, _color, bufVars, auxVars, _lcMap, _syllableMap,
                           decls, menuToolButton>>

\* startElement, "rest": as a note, without a pitch.
StartRest(color, ts, len) ==
    /\ CanOpen
    /\ _color' = ColorOf(color)
    /\ elts' = Append(addNote(elts, _curTuplet, Len(elts) + 1),
          [NewElt("Rest", toInt(ts), <<"", len>>,
                  IF _curVoice = NULL THEN NULL ELSE voices[_curVoice].staff,
                  color)
             EXCEPT !.color = ColorOf(color), !.voice = _curVoice,
                    !.tuplet = _curTuplet,
                    !.playableLength = IF AttributeShape
                                       THEN musicLengthFromString(len)
                                       ELSE DefaultPlayableLength])
    /\ _curRest' = Len(elts) + 1
    /\ _curMusElt' = Len(elts) + 1
    /\ Pushed("rest", [SignAttrs(ts, <<color>>) EXCEPT !.obj = Len(elts) + 1])
    /\ UNCHANGED <<docs, sheets, contexts, voices, _curSheet, _curContext,
                   _curVoice, _curKeySig, _curTimeSig, _curClef, _curBarline,
                   _curNote, _prevMusElt, _curTuplet, _document, _version,
                   _errorMsg, _cha, bufVars, _curTie, _curMark,
                   _curTempoPlayableLength, _curSlur,
                           _curPhrasingSlur, _lcMap, _syllableMap, decls, menuToolButton>>

\* endElement, "rest".
EndRest ==
    /\ CanClose("rest")
    /\ IF _curRest = NULL \/ _curVoice = NULL
       THEN Crash("end", "rest")
       ELSE /\ elts' =
                 [elts EXCEPT ![_curRest] =
                    [(IF AttributeShape THEN elts[_curRest]
                      ELSE [elts[_curRest] EXCEPT
                              !.playableLength = _curPlayableLength,
                              !.timeLength =
                                  IF DerivesTimeLength(_curRest)
                                  THEN calculateTimeLength(_curPlayableLength)
                                  ELSE elts[_curRest].timeLength,
                              !.derived = DerivesTimeLength(_curRest)])
                       EXCEPT !.bufAtClose =
                                 <<_curPlayableLength, _curDiatonicPitch>>]]
            /\ voices' = [voices EXCEPT ![_curVoice].musElementList =
                                            Append(@, _curRest)]
            /\ _curRest' = NULL
            /\ Closed("rest")
            /\ RestoreMusElt
            /\ UNCHANGED <<docs, sheets, contexts, _curSheet, _curContext,
                           _curVoice, _curKeySig, _curTimeSig, _curClef,
                           _curBarline, _curNote, _curTuplet, _document,
                           _version, _errorMsg, _color, bufVars, _curTie,
                           _curMark, _curTempoPlayableLength, _curSlur,
                           _curPhrasingSlur, _lcMap,
                           _syllableMap, decls, menuToolButton>>

\* -------------------------------------------------------------- tuplets
\* startElement, "tuplet": new CATuplet(number, actual-number).  The
\* tuplet becomes the tuplet cursor; the element cursor stays.
StartTuplet(color, number, actual) ==
    /\ CanOpen
    /\ _color' = ColorOf(color)
    /\ elts' = Append(elts,
          [NewElt("Tuplet", 0, <<toInt(number), toInt(actual)>>, NULL, color)
             EXCEPT !.color = ColorOf(color)])
    /\ _curTuplet' = Len(elts) + 1
    /\ Pushed("tuplet", ObjAttrs(Len(elts) + 1))
    /\ UNCHANGED <<docs, sheets, contexts, voices, _curSheet, _curContext,
                   _curVoice, _curKeySig, _curTimeSig, _curClef, _curBarline,
                   _curNote, _curMusElt, _prevMusElt, _document, _version,
                   _errorMsg, _cha, bufVars, auxVars, _lcMap, _syllableMap,
                   decls, menuToolButton>>

\* Time lengths are whole numbers (int timeLength): the quotient is
\* rounded, down or to the nearest number.
Roundings == {"down", "nearest"}
Scaled(base, actual, number, r) ==
    IF r = "down" THEN (base * actual) \div number
    ELSE (2 * base * actual + number) \div (2 * number)

\* CATuplet::assignTimes(): every member gets the time length of its
\* playable length times actual-number / number.  The numbers of the
\* markup are positive.
assignTimes(es, tuplet, r) ==
    [e \in DOMAIN es |->
        IF e \in Range(es[tuplet].noteList)
        THEN [es[e] EXCEPT !.timeLength =
                 Scaled(calculateTimeLength(es[e].playableLength),
                        es[tuplet].attr[2], es[tuplet].attr[1], r)]
        ELSE es[e]]

\* endElement, "tuplet".  The tuplet cursor is dereferenced unchecked.
EndTuplet ==
    /\ CanClose("tuplet")
    /\ IF _curTuplet = NULL
       THEN Crash("end", "tuplet")
       ELSE /\ \E r \in Roundings : elts' = assignTimes(elts, _curTuplet, r)
            /\ _curTuplet' = NULL
            /\ Closed("tuplet")
            /\ RestoreMusElt
            /\ UNCHANGED <<docs, sheets, contexts, voices, _curSheet,
                           _curContext, _curVoice, _curKeySig, _curTimeSig,
                           _curClef, _curBarline, _curNote, _document,
                           _version, _errorMsg, _color, bufVars, auxVars,
                           _lcMap, _syllableMap, decls, menuToolButton>>

\* The note or rest built by the innermost note or rest element that is
\* open; NULL when none is open.
EnclosingPlayable ==
    LET S == {i \in 1..Len(open) : open[i].kind \in {"note", "rest"}} IN
    IF S = {} THEN NULL
    ELSE open[CHOOSE i \in S : \A j \in S : j <= i].a.obj

\* History: a buffer element of that kind is nested in the open note or
\* rest.
NestedIn(es, kind) ==
    IF EnclosingPlayable = NULL THEN es
    ELSE [es EXCEPT ![EnclosingPlayable].nested = @ \cup {kind}]

\* A handler that does not look at the depth stack.
NeverUnderMark == FALSE

\* startElement, line 520: _depth.top() == "mark".
UnderMark == Top(_depth) = "mark"

\* startElement, "playable-length": the length goes to the tempo buffer
\* when the enclosing element is a mark, to the note buffer otherwise.
\* QStack::top() of an empty stack is out of range: the handler faults or
\* reads some string, which is or is not "mark".
StartPlayableLength(len) ==
    /\ CanOpen
    /\ \/ /\ _depth = <<>>
          /\ Crash("start", "playable-length")
       \/ /\ _color' = ColorOf("")
          /\ \/ /\ IF _depth = <<>> THEN TRUE ELSE UnderMark
                /\ _curTempoPlayableLength' = musicLengthFromString(len)
                /\ UNCHANGED _curPlayableLength
             \/ /\ IF _depth = <<>> THEN TRUE ELSE ~UnderMark
                /\ _curPlayableLength' = musicLengthFromString(len)
                /\ UNCHANGED _curTempoPlayableLength
          /\ Pushed("playable-length", SignAttrs("", <<len>>))
          /\ elts' = NestedIn(elts, "playable-length")
          /\ UNCHANGED <<docs, sheets, contexts, voices, cursorVars,
                         _document, _version,
                         _errorMsg, _cha, _curDiatonicKey, _curDiatonicPitch,
                         _curRest, _curTie, _curMark, _curSlur,
                           _curPhrasingSlur, _lcMap, _syllableMap,
                         decls, menuToolButton>>

\* startElement, "diatonic-pitch".
StartDiatonicPitch(noteName) ==
    /\ CanOpen
    /\ _color' = ColorOf("")
    /\ _curDiatonicPitch' = <<toInt(noteName), 0>>
    /\ Pushed("diatonic-pitch", NoAttrs)
    /\ elts' = NestedIn(elts, "diatonic-pitch")
    /\ UNCHANGED <<docs, sheets, contexts, voices, cursorVars, _document,
                   _version, _errorMsg,
                   _cha, _curDiatonicKey, _curPlayableLength, auxVars,
                   _lcMap, _syllableMap, decls, menuToolButton>>

\* CADiatonicKey::genderFromString: the gender an attribute names.
genderFromString(s) == IF s = "minor" THEN "minor" ELSE "major"

\* startElement, "diatonic-key": the key buffer takes a key of the default
\* pitch and the gender named.
StartDiatonicKey(gender) ==
    /\ CanOpen
    /\ _color' = ColorOf("")
    /\ _curDiatonicKey' = <<DefaultDiatonicPitch, genderFromString(gender)>>
    /\ Pushed("diatonic-key", NoAttrs)
    /\ UNCHANGED <<graphVars, cursorVars, _document, _version, _errorMsg,
                   _cha, _curPlayableLength, _curDiatonicPitch, auxVars,
                   _lcMap, _syllableMap, decls, menuToolButton>>

\* endElement, "diatonic-key": the buffered pitch becomes the root of the
\* buffered key.
EndDiatonicKey ==
    /\ CanClose("diatonic-key")
    /\ _curDiatonicKey' = <<_curDiatonicPitch, _curDiatonicKey[2]>>
    /\ Closed("diatonic-key")
    /\ RestoreMusElt
    /\ UNCHANGED <<graphVars, _curSheet, _curContext, _curVoice, _curKeySig,
                   _curTimeSig, _curClef, _curBarline, _curNote, _curTuplet,
                   _document, _version, _errorMsg, _color,
                   _curPlayableLength, _curDiatonicPitch, auxVars, _lcMap,
                   _syllableMap, decls, menuToolButton>>

\* A tie whose constructor already received its start note as end note.
TieSlurEnded(note) ==
    [NewElt("Slur", elts[note].timeStart, <<"TieType">>, elts[note].context,
            "")
       EXCEPT !.noteStart = note, !.noteEnd = note]
\* startElement, line 379: new CASlur(TieType, SlurPreferred,
\* _curNote->staff(), _curNote, nullptr).
TieSlur(note) ==
    [NewElt("Slur", elts[note].timeStart, <<"TieType">>, elts[note].context,
            "")
       EXCEPT !.noteStart = note, !.noteEnd = NULL]

\* startElement, "tie".  The note cursor is dereferenced unchecked.
StartTie(color) ==
    /\ CanOpen
    /\ IF _curNote = NULL
       THEN Crash("start", "tie")
       ELSE /\ _color' = ColorOf(color)
            /\ elts' = Append([elts EXCEPT ![_curNote].tieStart = Len(elts) + 1],
                              [TieSlur(_curNote) EXCEPT
                                  !.color = ColorOf(color),
                                  !.colorAttr = color])
            /\ _curTie' = Len(elts) + 1
            /\ _prevMusElt' = _curMusElt
            /\ _curMusElt' = Len(elts) + 1
            /\ Pushed("tie", ObjAttrs(Len(elts) + 1))
            /\ UNCHANGED <<docs, sheets, contexts, voices, _curSheet,
                           _curContext, _curVoice, _curKeySig, _curTimeSig,
                           _curClef, _curBarline, _curNote, _curTuplet,
                           _document, _version, _errorMsg, _cha, bufVars,
                           _curRest, _curMark, _curTempoPlayableLength,
                           _curSlur,
                           _curPhrasingSlur, _lcMap, _syllableMap, decls, menuToolButton>>

\* --------------------------------------------------------------- slurs
\* startElement, lines 389 and 406: new CASlur(type, SlurPreferred,
\* _curNote->staff(), _curNote, nullptr).
NewSlur(slurType, note, color) ==
    [NewElt("Slur", elts[note].timeStart, <<slurType>>, elts[note].context,
            color)
       EXCEPT !.noteStart = note, !.noteEnd = NULL, !.color = ColorOf(color)]

\* startElement, "slur-start".  The note cursor is dereferenced unchecked.
StartSlurStart(color) ==
    /\ CanOpen
    /\ IF _curNote = NULL
       THEN Crash("start", "slur-start")
       ELSE /\ _color' = ColorOf(color)
            /\ elts' = Append(
                  [elts EXCEPT ![_curNote].slurStart = Len(elts) + 1],
                  NewSlur("SlurType", _curNote, color))
            /\ _curSlur' = Len(elts) + 1
            /\ _prevMusElt' = _curMusElt
            /\ _curMusElt' = Len(elts) + 1
            /\ Pushed("slur-start", ObjAttrs(Len(elts) + 1))
            /\ UNCHANGED <<docs, sheets, contexts, voices, _curSheet,
                           _curContext, _curVoice, _curKeySig, _curTimeSig,
                           _curClef, _curBarline, _curNote, _curTuplet,
                           _document, _version, _errorMsg, _cha, bufVars,
                           _curRest, _curTie, _curMark,
                           _curTempoPlayableLength, _curPhrasingSlur,
                           _lcMap, _syllableMap, decls, menuToolButton>>

\* startElement, "phrasing-slur-start".
StartPhrasingSlurStart(color) ==
    /\ CanOpen
    /\ IF _curNote = NULL
       THEN Crash("start", "phrasing-slur-start")
       ELSE /\ _color' = ColorOf(color)
            /\ elts' = Append(
                  [elts EXCEPT ![_curNote].phrasingSlurStart = Len(elts) + 1],
                  NewSlur("PhrasingSlurType", _curNote, color))
            /\ _curPhrasingSlur' = Len(elts) + 1
            /\ _prevMusElt' = _curMusElt
            /\ _curMusElt' = Len(elts) + 1
            /\ Pushed("phrasing-slur-start", ObjAttrs(Len(elts) + 1))
            /\ UNCHANGED <<docs, sheets, contexts, voices, _curSheet,
                           _curContext, _curVoice, _curKeySig, _curTimeSig,
                           _curClef, _curBarline, _curNote, _curTuplet,
                           _document, _version, _errorMsg, _cha, bufVars,
                           _curRest, _curTie, _curMark,
                           _curTempoPlayableLength, _curSlur,
                           _lcMap, _syllableMap, decls, menuToolButton>>

\* startElement, lines 399-401 and 416-418: the slur's end note, the
\* note's link to the slur and the slur's time length.
BindSlurEnd(es, slur, note, endField) ==
    [es EXCEPT ![note][endField] = slur,
               ![slur].noteEnd = note,
               ![slur].timeLength =
                   es[note].timeStart - es[es[slur].noteStart].timeStart]

\* startElement, "slur-end".
StartSlurEnd ==
    /\ CanOpen
    /\ IF _curSlur # NULL /\ _curNote = NULL
       THEN Crash("start", "slur-end")
       ELSE /\ _color' = ColorOf("")
            /\ IF _curSlur # NULL
               THEN /\ elts' = BindSlurEnd(elts, _curSlur, _curNote, "slurEnd")
                    /\ _curSlur' = NULL
               ELSE UNCHANGED <<elts, _curSlur>>
            /\ Pushed("slur-end", NoAttrs)
            /\ UNCHANGED <<docs, sheets, contexts, voices, cursorVars,
                           _document, _version, _errorMsg, _cha, bufVars,
                           _curRest, _curTie, _curMark,
                           _curTempoPlayableLength, _curPhrasingSlur,
                           _lcMap, _syllableMap, decls, menuToolButton>>

\* startElement, "phrasing-slur-end".
StartPhrasingSlurEnd ==
    /\ CanOpen
    /\ IF _curPhrasingSlur # NULL /\ _curNote = NULL
       THEN Crash("start", "phrasing-slur-end")
       ELSE /\ _color' = ColorOf("")
            /\ IF _curPhrasingSlur # NULL
               THEN /\ elts' = BindSlurEnd(elts, _curPhrasingSlur, _curNote,
                                           "phrasingSlurEnd")
                    /\ _curPhrasingSlur' = NULL
               ELSE UNCHANGED <<elts, _curPhrasingSlur>>
            /\ Pushed("phrasing-slur-end", NoAttrs)
            /\ UNCHANGED <<docs, sheets, contexts, voices, cursorVars,
                           _document, _version, _errorMsg, _cha, bufVars,
                           _curRest, _curTie, _curMark,
                           _curTempoPlayableLength, _curSlur,
                           _lcMap, _syllableMap, decls, menuToolButton>>

\* --------------------------------------------------------------- marks
\* CAMark::markTypeFromString: the mark type a mark-type attribute names,
\* Undefined for any other string.
markTypeFromString(s) ==
    IF s \in {"Text", "Tempo", "Ritardando", "Dynamic", "Crescendo", "Pedal",
              "InstrumentChange", "BookMark", "RehersalMark", "Fermata",
              "RepeatMark", "Articulation", "Fingering"}
    THEN s ELSE "Undefined"

\* importMark: the class the generic cursor is cast to, unchecked, for the
\* constructor of a mark of this type.
CastOf(type) ==
    CASE type \in {"Text", "Ritardando"} -> "Playable"
      [] type \in {"Dynamic", "Crescendo", "InstrumentChange", "Articulation",
                   "Fingering"} -> "Note"
      [] type = "RepeatMark" -> "Barline"
      [] OTHER -> "MusElement"

\* CAMusElement::isPlayable().
isPlayable(e) == elts[e].musElementType \in {"Note", "Rest"}

\* The element is an object of the class the cast names.
CastFits(type, e) ==
    CASE CastOf(type) = "Note" -> elts[e].musElementType = "Note"
      [] CastOf(type) = "Playable" -> isPlayable(e)
      [] CastOf(type) = "Barline" -> elts[e].musElementType = "Barline"
      [] OTHER -> TRUE

\* importMark, lines 856-867: a fermata is built on a playable element or
\* on a barline and on nothing else.
FermataFits(e) == isPlayable(e) \/ elts[e].musElementType = "Barline"

\* startElement, "mark": importMark() and the colour.  importMark clears
\* the mark cursor, builds the mark of the type named and adds it to the
\* element under the generic cursor; startElement then sets the colour
\* through the mark cursor, unchecked.  An undefined type and a fermata on
\* an element it does not fit build nothing and the colour is set through
\* a null cursor.  A null generic cursor is dereferenced by the fermata
\* test and by addMark().  A cast to a class the element is not an object
\* of is undefined: the handler faults or goes on with the mark attached.
StartMark(color, mt) ==
    LET type == markTypeFromString(mt) IN
    /\ CanOpen
    /\ IF type = "Undefined" \/ _curMusElt = NULL
       THEN CrashWith("start", "mark", mt)
       ELSE IF type = "Fermata" /\ ~FermataFits(_curMusElt)
       THEN CrashWith("start", "mark", mt)
       ELSE \/ /\ ~CastFits(type, _curMusElt) \/ elts[_curMusElt].deleted
               /\ CrashWith("start", "mark", mt)
            \/ /\ _color' = ColorOf(color)
               /\ elts' = Append(
                     [elts EXCEPT ![_curMusElt].markList =
                                     Append(@, Len(elts) + 1)],
                     [NewElt("Mark", elts[_curMusElt].timeStart, <<mt>>,
                             elts[_curMusElt].context, color)
                        EXCEPT !.color = ColorOf(color),
                               !.markType = type,
                               !.associatedElt = _curMusElt])
               /\ _curMark' = Len(elts) + 1
               /\ Pushed("mark", SignAttrs("", <<mt>>))
               /\ UNCHANGED <<docs, sheets, contexts, voices, cursorVars,
                              _document, _version, _errorMsg, _cha, bufVars,
                              _curRest, _curTie, _curTempoPlayableLength,
                              _curSlur,
                           _curPhrasingSlur, _lcMap, _syllableMap, decls, menuToolButton>>

\* endElement, "mark": a tempo mark of a file that is not of version 0.5
\* takes its beat from the tempo buffer.  The mark cursor is dereferenced
\* unchecked.
EndMark ==
    /\ CanClose("mark")
    /\ IF ~IsPrefixOf(<<0, 5>>, _version) /\ _curMark = NULL
       THEN Crash("end", "mark")
       ELSE /\ elts' =
                 IF /\ ~IsPrefixOf(<<0, 5>>, _version)
                    /\ elts[_curMark].markType = "Tempo"
                 THEN [elts EXCEPT ![_curMark].playableLength =
                                      _curTempoPlayableLength]
                 ELSE elts
            /\ Closed("mark")
            /\ RestoreMusElt
            /\ UNCHANGED <<docs, sheets, contexts, voices, _curSheet,
                           _curContext, _curVoice, _curKeySig, _curTimeSig,
                           _curClef, _curBarline, _curNote, _curTuplet,
                           _document, _version, _errorMsg, _color, bufVars,
                           auxVars, _lcMap, _syllableMap, decls, menuToolButton>>

\* ------------------------------------------------------ specifications
\* How many music elements of a type the import has built.
Built(type) == Cardinality({e \in DOMAIN elts : elts[e].musElementType = type})

\* Sign deduplication: one sheet with one staff, its voices and their
\* signs, every sign element with every combination of its attributes.
SizeSign ==
    /\ Len(open) <= MaxDepth
    /\ Len(docs) <= MaxDocs
    /\ Len(sheets) <= SignSheets
    /\ Len(contexts) <= SignContexts
    /\ Len(voices) <= SignVoices
    /\ SignEvents <= SignSigns

NextSign ==
    \/ StartDocument("") /\ SizeSign'
    \/ StartSheet("", "") /\ SizeSign'
    \/ StartStaff("", "") /\ SizeSign'
    \/ StartVoice("", "") /\ SizeSign'
    \/ \E ts \in TimeStartAttrs, ct \in ClefTypeAttrs :
          StartClef("", ts, ct) /\ SizeSign'
    \/ \E ts \in TimeStartAttrs, b \in BeatsAttrs :
          StartTimeSignature("", ts, b) /\ SizeSign'
    \/ \E ts \in TimeStartAttrs, bt \in BarlineTypeAttrs :
          StartBarline("", ts, bt) /\ SizeSign'
    \/ \E ts \in TimeStartAttrs, kst \in KeySigTypeAttrs, m \in ModusAttrs :
          StartKeySignature("", ts, kst, m) /\ SizeSign'
    \/ EndClef
    \/ EndTimeSignature
    \/ EndBarline
    \/ EndKeySignature
    \/ EndVoice
    \/ EndStaff
    \/ EndSheet
    \/ EndDocument
    \/ ImportReturn

SpecSign == Init /\ [][NextSign]_vars

\* ------------------------------------------------- sign deduplication
\* The element type a sign element of the markup builds.
TypeOfKind(kind) ==
    CASE kind = "clef" -> "Clef"
      [] kind = "key-signature" -> "KeySignature"
      [] kind = "time-signature" -> "TimeSignature"
      [] kind = "barline" -> "Barline"

\* The sign close events of staff s that declared a sign of kind k at time
\* t with the attributes a.
SignDecls(s, k, t, a) ==
    {i \in 1..Len(decls) :
        /\ decls[i].staff = s /\ decls[i].kind = k
        /\ decls[i].ts = t /\ decls[i].attr = a}

\* Every voice of staff s declared that sign once, as a child element of
\* the voice.
DeclaredInEveryVoice(s, k, t, a) ==
    /\ Len(contexts[s].voiceList) > 0
    /\ \A v \in Range(contexts[s].voiceList) :
          Cardinality({i \in SignDecls(s, k, t, a) : decls[i].voice = v}) = 1
    /\ \A i \in SignDecls(s, k, t, a) :
          decls[i].direct /\ decls[i].voice \in Range(contexts[s].voiceList)

\* The elements in the voices of staff s.
StaffElts(s) ==
    UNION {Range(voices[v].musElementList) : v \in Range(contexts[s].voiceList)}

\* One object stands for the sign in staff s: it is alive, of the declared
\* kind and time, the only one of its properties there, linked into every
\* voice, and every other candidate built for it was deleted.
SharedSign(s, k, t, a) ==
    LET D == SignDecls(s, k, t, a)
        O == {decls[i].obj : i \in D}
    IN  /\ Cardinality(O) = 1
        /\ \A o \in O :
              /\ ~elts[o].deleted
              /\ elts[o].musElementType = TypeOfKind(k)
              /\ elts[o].timeStart = t
              /\ \A v \in Range(contexts[s].voiceList) :
                    o \in Range(voices[v].musElementList)
              /\ {e \in StaffElts(s) :
                     /\ elts[e].timeStart = t
                     /\ compare(elts[e], elts[o]) = 0} = {o}
        /\ Cardinality({i \in D : decls[i].cand = decls[i].obj}) = 1
        /\ \A i \in D : decls[i].cand # decls[i].obj => elts[decls[i].cand].deleted

\* C1: when every voice of a staff has declared a sign of the same kind,
\* start time and attributes, exactly one object of that kind exists at
\* that time in the staff, that same object is in the element sequence of
\* every voice, and the other candidates were discarded.
C1_OneSharedSign ==
    \A i \in 1..Len(decls) :
       DeclaredInEveryVoice(decls[i].staff, decls[i].kind, decls[i].ts,
                            decls[i].attr)
          => SharedSign(decls[i].staff, decls[i].kind, decls[i].ts,
                        decls[i].attr)

\* Two voices of one staff share one clef object and the second candidate
\* is gone.
C1_Witness ==
    \E i, j \in 1..Len(decls) :
       /\ decls[i].voice # decls[j].voice
       /\ decls[i].kind = "clef" /\ decls[j].kind = "clef"
       /\ decls[i].staff = decls[j].staff
       /\ decls[i].ts = decls[j].ts /\ decls[i].attr = decls[j].attr
       /\ DeclaredInEveryVoice(decls[i].staff, "clef", decls[i].ts,
                               decls[i].attr)
       /\ SharedSign(decls[i].staff, "clef", decls[i].ts, decls[i].attr)
       /\ elts[decls[j].cand].deleted

\* C2: two signs of the same kind and start time whose attributes differ
\* are never merged: they are two live objects, and each is only in the
\* element sequences of voices that declared a sign with its attributes.
C2_DifferingSignsDistinct ==
    /\ \A i, j \in 1..Len(decls) :
          (/\ decls[i].staff = decls[j].staff /\ decls[i].kind = decls[j].kind
           /\ decls[i].ts = decls[j].ts /\ decls[i].attr # decls[j].attr)
             => /\ decls[i].obj # decls[j].obj
                /\ ~elts[decls[i].obj].deleted
                /\ ~elts[decls[j].obj].deleted
    /\ \A i \in 1..Len(decls) : \A v \in 1..Len(voices) :
          decls[i].obj \in Range(voices[v].musElementList)
             => \E j \in SignDecls(decls[i].staff, decls[i].kind, decls[i].ts,
                                   decls[i].attr) : decls[j].voice = v

\* Two voices declared clefs of different types at one time and each voice
\* holds its own clef.
C2_Witness ==
    \E i, j \in 1..Len(decls) :
       /\ decls[i].kind = "clef" /\ decls[j].kind = "clef"
       /\ decls[i].staff = decls[j].staff /\ decls[i].voice # decls[j].voice
       /\ decls[i].ts = decls[j].ts /\ decls[i].attr # decls[j].attr
       /\ decls[i].obj # decls[j].obj
       /\ decls[i].obj \notin Range(voices[decls[j].voice].musElementList)

\* Scope of the two failures: with no Custom key signature among the
\* declarations, signs are shared and kept apart as C1 and C2 say.
NoCustomDeclared ==
    \A i \in 1..Len(decls) :
       ~(decls[i].kind = "key-signature" /\ decls[i].attr[1] = "custom")
SignsWithoutCustom ==
    NoCustomDeclared => C1_OneSharedSign /\ C2_DifferingSignsDistinct

\* ------------------------------------------------ deferred references
\* Deferred voice references: sheets (which the markup may nest), staffs,
\* lyrics contexts, voices and syllables, with every associated-voice-idx.
SizeRef ==
    /\ Len(open) <= MaxDepth
    /\ Len(docs) <= MaxDocs
    /\ Len(sheets) <= RefSheets
    /\ Len(contexts) <= RefContexts
    /\ Len(voices) <= RefVoices
    /\ Built("Syllable") <= RefSyllables

NextRef ==
    \/ StartDocument("") /\ SizeRef'
    \/ StartSheet("", "") /\ SizeRef'
    \/ StartStaff("", "") /\ SizeRef'
    \/ \E idx \in IdxAttrs : StartLyricsContext("", idx, "") /\ SizeRef'
    \/ StartVoice("", "") /\ SizeRef'
    \/ \E idx \in IdxAttrs : StartSyllable("", "0", idx) /\ SizeRef'
    \/ EndDocument
    \/ EndSheet
    \/ EndStaff
    \/ EndVoice
    \/ EndOther
    \/ ImportReturn

SpecRef == Init /\ [][NextRef]_vars

\* The contexts and the syllables the markup gave an associated-voice-idx.
IndexedContexts ==
    {c \in DOMAIN contexts :
        contexts[c].contextType = "LyricsContext" /\ contexts[c].idx # ""}
IndexedSyllables ==
    {e \in DOMAIN elts :
        elts[e].musElementType = "Syllable" /\ elts[e].idx # ""}

\* The voice an index names in a sheet's flattened voice list; NULL when
\* the index names none.
VoiceAt(sheet, idx) ==
    IF InRange(toInt(idx), voiceList(sheet))
    THEN voiceList(sheet)[toInt(idx) + 1] ELSE NULL

\* The last event was a sheet close event that ended in a fault.
SheetCloseCrashed ==
    pc = "crashed" /\ ev.type = "end" /\ ev.kind = "sheet"

\* C3: after the close event of its enclosing sheet, a lyrics-context or a
\* syllable opened with an in-range associated-voice-idx i has the i-th
\* voice of the sheet as its associated voice; a syllable whose index is
\* out of range has none, and the close event of its sheet succeeds.
C3_IndexResolved ==
    /\ \A c \in IndexedContexts :
          (/\ contexts[c].encl # NULL
           /\ sheets[contexts[c].encl].closed
           /\ VoiceAt(contexts[c].encl, contexts[c].idx) # NULL)
             => contexts[c].associatedVoice
                   = VoiceAt(contexts[c].encl, contexts[c].idx)
    /\ \A e \in IndexedSyllables :
          (elts[e].encl # NULL /\ sheets[elts[e].encl].closed)
             => elts[e].associatedVoice = VoiceAt(elts[e].encl, elts[e].idx)
    /\ ~(/\ SheetCloseCrashed
         /\ \E e \in IndexedSyllables :
               /\ elts[e].encl = EnclosingSheet
               /\ VoiceAt(elts[e].encl, elts[e].idx) = NULL)

\* A lyrics context names the second voice of its sheet before that voice
\* is declared, and after the sheet's close event it has that voice.
C3_Witness ==
    \E c \in IndexedContexts :
       /\ contexts[c].idx = "1"
       /\ contexts[c].encl # NULL
       /\ sheets[contexts[c].encl].closed
       /\ Len(voiceList(contexts[c].encl)) = 2
       /\ contexts[c].associatedVoice = voiceList(contexts[c].encl)[2]
       /\ \A s \in Range(staffList(contexts[c].encl)) : c < s

\* Scope of the failure of C3: with no out-of-range index recorded for a
\* lyrics context and the sheet cursor on the sheet being closed, C3 holds.
OutOfRangeContextRecorded ==
    \E c \in DOMAIN _lcMap : ~InRange(_lcMap[c], voiceList(_curSheet))
IndexResolvedWithoutFault ==
    \/ SheetCloseCrashed /\ (_curSheet = NULL \/ OutOfRangeContextRecorded)
    \/ C3_IndexResolved

\* C4: a lyrics context whose associated-voice-idx is out of range for its
\* sheet is tolerated: the close event of the sheet succeeds, the context
\* keeps no associated voice, and nothing is read past the voice list (a
\* read past the list ends in a fault or leaves what it read in the context).
C4_OutOfRangeContextTolerated ==
    /\ \A c \in IndexedContexts :
          (/\ contexts[c].encl # NULL
           /\ sheets[contexts[c].encl].closed
           /\ VoiceAt(contexts[c].encl, contexts[c].idx) = NULL)
             => contexts[c].associatedVoice = NULL
    /\ ~(/\ SheetCloseCrashed
         /\ \E c \in IndexedContexts :
               /\ c \in DOMAIN _lcMap
               /\ contexts[c].encl = EnclosingSheet
               /\ VoiceAt(contexts[c].encl, contexts[c].idx) = NULL)

\* C5: after every sheet close event both maps are empty, and every
\* reference the close event resolved was recorded in the sheet it closed.
C5_NoLeakAcrossSheets ==
    [][(ev'.type = "end" /\ ev'.kind = "sheet" /\ ev'.ret = "true")
          => /\ DOMAIN _lcMap' = {}
             /\ DOMAIN _syllableMap' = {}
             /\ \A c \in DOMAIN _lcMap : contexts[c].encl = EnclosingSheet
             /\ \A e \in DOMAIN _syllableMap : elts[e].encl = EnclosingSheet]_vars

\* A sheet close event has resolved a recorded index and left both maps
\* empty.
C5_Witness ==
    /\ ev.type = "end" /\ ev.kind = "sheet" /\ ev.ret = "true"
    /\ DOMAIN _lcMap = {}
    /\ DOMAIN _syllableMap = {}
    /\ \E c \in IndexedContexts : contexts[c].associatedVoice \in DOMAIN voices

\* C6: when the import call has returned, after a success or a failure,
\* both maps are empty.
C6_MapsDrainedAtReturn ==
    pc = "returned" => DOMAIN _lcMap = {} /\ DOMAIN _syllableMap = {}

\* The import returned after the whole markup was read, with a resolved
\* index and both maps empty.
C6_Witness ==
    /\ pc = "returned"
    /\ ev.ret = "true"
    /\ DOMAIN _lcMap = {}
    /\ DOMAIN _syllableMap = {}
    /\ \E c \in IndexedContexts : contexts[c].associatedVoice \in DOMAIN voices

\* ------------------------------------------------ structural failures
\* Structure and failure: sheets, the five kinds of context and voices in
\* any nesting, a fatal error of the tokenizer at any point, the return.
SizeCtx ==
    /\ Len(open) <= MaxDepth
    /\ Len(docs) <= MaxDocs
    /\ Len(sheets) <= CtxSheets
    /\ Len(contexts) <= CtxContexts
    /\ Len(voices) <= CtxVoices

NextCtx ==
    \/ StartDocument("") /\ SizeCtx'
    \/ StartSheet("", "") /\ SizeCtx'
    \/ StartStaff("", "") /\ SizeCtx'
    \/ StartLyricsContext("", "", "") /\ SizeCtx'
    \/ StartFiguredBassContext("", "") /\ SizeCtx'
    \/ StartFunctionMarkContext("", "") /\ SizeCtx'
    \/ StartChordNameContext("", "") /\ SizeCtx'
    \/ StartVoice("", "") /\ SizeCtx'
    \/ EndDocument
    \/ EndSheet
    \/ EndStaff
    \/ EndVoice
    \/ EndOther
    \/ FatalError
    \/ ImportReturn

SpecCtx == Init /\ [][NextCtx]_vars

\* The step is the open event of an element of that kind.
IsOpenEvent(kind) == ev'.type = "start" /\ ev'.kind = kind

\* C7: a voice open event that finds the context cursor unset, or on a
\* context that is no staff, fails with an error message, builds no voice
\* and leaves the voice cursor and every voice list as they were.
C7_VoiceNeedsStaff ==
    [][(/\ IsOpenEvent("voice")
        /\ (_curContext = NULL
              \/ contexts[_curContext].contextType # "Staff"))
          => /\ ev'.ret = "false"
             /\ pc' = "failed"
             /\ _errorMsg' # ""
             /\ voices' = voices
             /\ _curVoice' = _curVoice
             /\ \A c \in DOMAIN contexts :
                   contexts'[c].voiceList = contexts[c].voiceList]_vars

\* A voice open event has failed under a context that is no staff.
C7_Witness ==
    /\ ev = Event("start", "voice", "false")
    /\ pc = "failed"
    /\ _curContext # NULL
    /\ contexts[_curContext].contextType # "Staff"
    /\ _errorMsg # ""

\* C8: an open event of any of the five context kinds that arrives while
\* no sheet element is open fails with an error message, builds no context
\* and leaves the context cursor and every sheet's context list as they
\* were.
C8_ContextNeedsSheet ==
    [][(/\ \E kind \in ContextKinds : IsOpenEvent(kind)
        /\ EnclosingSheet = NULL)
          => /\ ev'.ret = "false"
             /\ pc' = "failed"
             /\ _errorMsg' # ""
             /\ contexts' = contexts
             /\ _curContext' = _curContext
             /\ \A s \in DOMAIN sheets :
                   sheets'[s].contextList = sheets[s].contextList]_vars

\* A context open event has failed after the last sheet was closed.
C8_Witness ==
    /\ ev.type = "start" /\ ev.kind \in ContextKinds /\ ev.ret = "false"
    /\ pc = "failed"
    /\ _errorMsg # ""
    /\ EnclosingSheet = NULL
    /\ \E s \in DOMAIN sheets : sheets[s].closed

\* C9: when a handler has failed or the tokenizer has reported a fatal
\* error after the document element was opened, the import returns no
\* document.
C9_NoDocumentOnFailure ==
    (pc = "returned" /\ ev.ret = "false" /\ Len(docs) > 0) => returned = NULL

\* The import has returned the document after the whole markup was read.
C9_Witness ==
    pc = "returned" /\ ev.ret = "true" /\ returned # NULL

\* -------------------------------------------------------------- colour
\* Colour and version: the version element with its text anywhere in the
\* markup, a staff with a voice, and in the voice notes with every color
\* attribute.
SizeColor ==
    /\ Len(open) <= MaxDepth
    /\ Len(docs) <= MaxDocs
    /\ Len(sheets) <= ColSheets
    /\ Len(contexts) <= ColContexts
    /\ Len(voices) <= ColVoices
    /\ Built("Note") <= ColNotes

NextColor ==
    \/ StartOther("canorus-version", "") /\ SizeColor'
    \/ \E t \in VersionTexts :
          Characters(t) /\ Top(open).kind = "canorus-version"
    \/ EndCanorusVersion
    \/ StartDocument("") /\ SizeColor'
    \/ StartSheet("", "") /\ SizeColor'
    \/ StartStaff("", "") /\ SizeColor'
    \/ StartVoice("", "") /\ SizeColor'
    \/ \E color \in ColorAttrs :
          StartNote(color, "0", "", "") /\ SizeColor' /\ _curVoice # NULL
    \/ EndNote
    \/ EndVoice
    \/ EndStaff
    \/ EndSheet
    \/ EndDocument
    \/ ImportReturn

SpecColor == Init /\ [][NextColor]_vars

\* Version v is at or before version w: at the first segment where they
\* differ v has the smaller number, and when neither differs from the other
\* v is not the longer one.  The version is empty while none has been read.
AtOrBefore(v, w) ==
    LET D == {i \in 1..Min(Len(v), Len(w)) : v[i] # w[i]} IN
    IF D = {} THEN Len(v) <= Len(w)
    ELSE LET i == CHOOSE i \in D : \A j \in D : i <= j IN v[i] < w[i]

\* The notes the markup gave a color attribute.
ColoredNotes ==
    {e \in DOMAIN elts :
        elts[e].musElementType = "Note" /\ elts[e].colorAttr # ""}

\* C10: a note opened with a color attribute has no colour when the
\* version in force at its open event is at or before 0.7.3 (none read
\* yet included), and the colour its attribute names when it is later.
C10_NoteColorByVersion ==
    \A e \in ColoredNotes :
       elts[e].color =
          IF AtOrBefore(elts[e].versionAtOpen, <<0, 7, 3>>)
          THEN InvalidColor
          ELSE QColorFromString(elts[e].colorAttr)

\* The import has returned a voice with two notes of color "#ff0000": one
\* read under version 0.7.3, without colour, and one read under a later
\* version, red.
C10_Witness ==
    /\ pc = "returned"
    /\ ev.ret = "true"
    /\ \E e1, e2 \in ColoredNotes :
          /\ elts[e1].colorAttr = "#ff0000" /\ elts[e2].colorAttr = "#ff0000"
          /\ elts[e1].versionAtOpen = <<0, 7, 3>>
          /\ elts[e1].color = InvalidColor
          /\ ~AtOrBefore(elts[e2].versionAtOpen, <<0, 7, 3>>)
          /\ elts[e2].color = <<255, 0, 0>>
          /\ \E v \in DOMAIN voices :
                {e1, e2} \subseteq Range(voices[v].musElementList)

\* ------------------------------------------------ the shape of playables
\* One voice with notes and rests read under the versions 0.4, 0.5, 0.5.1
\* and 0.7.3, each with its attributes and with or without nested length
\* and pitch elements.  The version elements stand in the voice, between
\* its notes and rests.
ShapePlayables == 2
ShapeVersionTexts ==
    { <<"0", ".", "4">>, <<"0", ".", "5">>, <<"0", ".", "5", ".", "1">>,
      <<"0", ".", "7", ".", "3">> }
PitchAttrs == {"3"}
LengthAttrs == {"half"}
NoteNameAttrs == {"4"}
MusicLengthAttrs == {"quarter"}

SizeShape ==
    /\ Len(open) <= MaxNesting
    /\ Len(docs) <= MaxDocs
    /\ Len(sheets) <= 1
    /\ Len(contexts) <= 1
    /\ Len(voices) <= 1
    /\ Built("Note") + Built("Rest") <= ShapePlayables

InVoice == IF open = <<>> THEN FALSE ELSE Top(open).kind = "voice"
InPlayable == \E i \in 1..Len(open) : open[i].kind \in {"note", "rest"}

NextShape ==
    \/ StartOther("canorus-version", "") /\ InVoice /\ SizeShape'
    \/ \E t \in ShapeVersionTexts :
          Characters(t) /\ Top(open).kind = "canorus-version" /\ _cha = <<>>
    \/ EndCanorusVersion
    \/ StartDocument("") /\ SizeShape'
    \/ StartSheet("", "") /\ SizeShape'
    \/ StartStaff("", "") /\ SizeShape'
    \/ StartVoice("", "") /\ SizeShape'
    \/ \E pitch \in PitchAttrs, len \in LengthAttrs :
          StartNote("", "0", pitch, len) /\ SizeShape' /\ _curVoice # NULL
    \/ \E len \in LengthAttrs :
          StartRest("", "0", len) /\ SizeShape' /\ _curVoice # NULL
    \/ \E len \in MusicLengthAttrs :
          StartPlayableLength(len) /\ InPlayable /\ SizeShape'
    \/ \E n \in NoteNameAttrs :
          StartDiatonicPitch(n) /\ InPlayable /\ SizeShape'
    \/ EndOther
    \/ EndNote
    \/ EndRest
    \/ EndVoice
    \/ EndStaff
    \/ EndSheet
    \/ EndDocument
    \/ ImportReturn

SpecShape == Init /\ [][NextShape]_vars

\* The notes and rests whose close event has run.
ClosedPlayables ==
    {e \in DOMAIN elts :
        /\ elts[e].musElementType \in {"Note", "Rest"}
        /\ elts[e].bufAtClose # <<>>}

\* The element holds what its open event's attributes gave.
HoldsAttributes(e) ==
    /\ elts[e].playableLength = musicLengthFromString(elts[e].attr[2])
    /\ elts[e].musElementType = "Note"
          => elts[e].diatonicPitch = <<toInt(elts[e].attr[1]), 0>>

\* The element holds what the buffers held at its close event.
HoldsBuffered(e) ==
    /\ elts[e].playableLength = elts[e].bufAtClose[1]
    /\ elts[e].musElementType = "Note"
          => elts[e].diatonicPitch = elts[e].bufAtClose[2]

InFamily05(v) == Len(v) >= 2 /\ v[1] = 0 /\ v[2] = 5

TieNotes == 3
TiePitches == {"3", "4"}

SizeTie ==
    /\ Len(open) <= MaxNesting
    /\ Len(docs) <= MaxDocs
    /\ Len(sheets) <= 1
    /\ Len(contexts) <= 1
    /\ Len(voices) <= 1
    /\ Built("Note") <= TieNotes
    /\ Built("Slur") <= TieNotes

InNote == IF open = <<>> THEN FALSE ELSE Top(open).kind = "note"

NextTie ==
    \/ StartDocument("") /\ SizeTie'
    \/ StartSheet("", "") /\ SizeTie'
    \/ StartStaff("", "") /\ SizeTie'
    \/ StartVoice("", "") /\ SizeTie'
    \/ StartNote("", "0", "", "") /\ SizeTie' /\ _curVoice # NULL
    \/ \E n \in TiePitches : StartDiatonicPitch(n) /\ InNote /\ SizeTie'
    \/ /\ StartTie("") /\ SizeTie' /\ InNote
       /\ IF _curNote = NULL THEN TRUE ELSE elts[_curNote].tieStart = NULL
    \/ EndOther
    \/ EndNote
    \/ EndVoice
    \/ EndStaff
    \/ EndSheet
    \/ EndDocument
    \/ ImportReturn

SpecTie == Init /\ [][NextTie]_vars

\* The position of element e in the element sequence of voice v, 0 when
\* it is not there.
PositionIn(v, e) ==
    LET l == voices[v].musElementList
        P == {i \in 1..Len(l) : l[i] = e}
    IN  IF P = {} THEN 0 ELSE CHOOSE i \in P : TRUE

\* A later note completes tie t: the note that follows t's start note in
\* the voice has the start note's pitch.
CompletedTie(t) ==
    LET A == elts[t].noteStart
        v == elts[A].voice
    IN  \E n \in DOMAIN elts :
           /\ elts[n].musElementType = "Note"
           /\ PositionIn(v, A) > 0
           /\ PositionIn(v, n) = PositionIn(v, A) + 1
           /\ elts[n].diatonicPitch = elts[A].diatonicPitch

\* The ties whose start note has been closed and that no later note
\* completes.
DanglingTies ==
    {t \in DOMAIN elts :
        /\ elts[t].musElementType = "Slur"
        /\ elts[elts[t].noteStart].bufAtClose # <<>>
        /\ ~CompletedTie(t)}

FrameNotes == 2
FrameSlurs == 2
UnhandledKinds == {"annotation"}

SizeFrame ==
    /\ Len(open) <= MaxNesting
    /\ Built("Note") <= FrameNotes
    /\ Built("Slur") <= FrameSlurs

NextFrame ==
    \/ StartNote("", "0", "", "") /\ SizeFrame'
    \/ StartTie("") /\ SizeFrame'
    \/ \E kind \in UnhandledKinds : StartOther(kind, "") /\ SizeFrame'
    \/ EndOther
    \/ EndNote
    \/ ImportReturn

SpecFrame == Init /\ [][NextFrame]_vars

\* The cursors of the builder.
AllCursors ==
    <<_curSheet, _curContext, _curVoice, _curNote, _curRest, _curKeySig,
      _curTimeSig, _curClef, _curBarline, _curMark, _curTie, _curTuplet,
      _curMusElt, _prevMusElt>>

\* C13: an open event of an unhandled kind returns success and leaves the
\* score graph and every cursor as they were; and the close event that
\* follows it at once leaves them as they were, too, so that the pair
\* changes neither the graph nor a cursor.
C13_UnhandledKindIsNoOp ==
    [][/\ (ev'.type = "start" /\ ev'.kind \in UnhandledKinds)
             => (ev'.ret = "true" /\ UNCHANGED <<graphVars, AllCursors>>)
       /\ (/\ ev.type = "start" /\ ev.kind \in UnhandledKinds
           /\ ev'.type = "end" /\ ev'.kind = ev.kind)
             => UNCHANGED <<graphVars, AllCursors>>]_vars

\* An element of an unhandled kind has been opened and closed at once
\* while no previous music element was saved: graph and cursors are as
\* before.
C13_Witness ==
    /\ ev = Event("end", "annotation", "true")
    /\ _curNote # NULL
    /\ _curMusElt = _curNote
    /\ _prevMusElt = NULL

\* --------------------------------------------------------------- marks
\* One voice with notes, rests, barlines and clefs, and mark elements of
\* the note-only types, of the types Fermata and Tempo and of an unknown
\* type nested in them or following them.
MarkHosts == 2
MarkMarks == 2
MarkTypeAttrs ==
    {"Dynamic", "Crescendo", "Articulation", "Fingering", "InstrumentChange",
     "Fermata", "Tempo", "bogus"}

SizeMark ==
    /\ Len(open) <= MaxNesting
    /\ Len(docs) <= MaxDocs
    /\ Len(sheets) <= 1
    /\ Len(contexts) <= 1
    /\ Len(voices) <= 1
    /\ Built("Note") + Built("Rest") + Built("Barline") + Built("Clef")
          <= MarkHosts
    /\ Built("Mark") <= MarkMarks

NextMark ==
    \/ StartDocument("") /\ SizeMark'
    \/ StartSheet("", "") /\ SizeMark'
    \/ StartStaff("", "") /\ SizeMark'
    \/ StartVoice("", "") /\ SizeMark'
    \/ StartNote("", "0", "", "") /\ SizeMark' /\ _curVoice # NULL
    \/ StartRest("", "0", "") /\ SizeMark' /\ _curVoice # NULL
    \/ StartBarline("", "0", "single") /\ SizeMark'
    \/ StartClef("", "0", "treble") /\ SizeMark'
    \/ \E mt \in MarkTypeAttrs : StartMark("", mt) /\ SizeMark'
    \/ EndMark
    \/ EndNote
    \/ EndRest
    \/ EndBarline
    \/ EndClef
    \/ EndVoice
    \/ EndStaff
    \/ EndSheet
    \/ EndDocument
    \/ ImportReturn

SpecMark == Init /\ [][NextMark]_vars

\* The marks of the graph.
Marks == {m \in DOMAIN elts : elts[m].musElementType = "Mark"}
NoteOnlyMarkTypes ==
    {"Dynamic", "Crescendo", "Articulation", "Fingering", "InstrumentChange"}

\* C14: every mark of type Dynamic, Crescendo, Articulation, Fingering or
\* InstrumentChange is attached to a note, and every fermata to a note, a
\* rest or a barline; no element of another type holds such a mark.
C14_MarkOnFittingElement ==
    \A m \in Marks :
       LET host == elts[elts[m].associatedElt].musElementType IN
       /\ elts[m].markType \in NoteOnlyMarkTypes => host = "Note"
       /\ elts[m].markType = "Fermata" => host \in {"Note", "Rest", "Barline"}

\* A dynamic mark opened in a note is attached to the note, and a fermata
\* opened in a barline to the barline.
C14_Witness ==
    \E m1, m2 \in Marks :
       /\ elts[m1].markType = "Dynamic"
       /\ elts[elts[m1].associatedElt].musElementType = "Note"
       /\ m1 \in Range(elts[elts[m1].associatedElt].markList)
       /\ elts[m2].markType = "Fermata"
       /\ elts[elts[m2].associatedElt].musElementType = "Barline"

\* The mark-type attribute names no mark type, or names a fermata while
\* the element under the generic cursor is neither playable nor a barline.
BuildsNoMark(mt) ==
    \/ markTypeFromString(mt) = "Undefined"
    \/ /\ markTypeFromString(mt) = "Fermata"
       /\ _curMusElt # NULL
       /\ ~FermataFits(_curMusElt)

\* C15: the open event of a mark whose type is undefined, or of a fermata
\* on an element that is neither playable nor a barline, returns success,
\* and so does a mark close event that finds the mark cursor unset.
C15_UndefinedMarkTolerated ==
    /\ (ev.type = "start" /\ ev.kind = "mark" /\ ev.ret = "crash")
          => ~BuildsNoMark(ev.arg)
    /\ (ev.type = "end" /\ ev.kind = "mark" /\ _curMark = NULL)
          => ev.ret = "true"

\* A mark of type Tempo opened in a clef, which needs no cast and is no
\* fermata, has been built, attached and closed with success.
C15_Witness ==
    /\ ev = Event("end", "mark", "true")
    /\ _curMark # NULL
    /\ elts[_curMark].markType = "Tempo"
    /\ elts[elts[_curMark].associatedElt].musElementType = "Clef"
    /\ _curMark \in Range(elts[elts[_curMark].associatedElt].markList)

\* --------------------------------------------------------------- names
\* Sheets with staffs and lyrics contexts and the voices of the staffs,
\* each opened with or without a name attribute.
NameSheets == 2
NameContexts == 3
NameVoices == 2
NameAttrs == {"", "Staff2"}

SizeName ==
    /\ Len(open) <= MaxNesting
    /\ Len(docs) <= MaxDocs
    /\ Len(sheets) <= NameSheets
    /\ Len(contexts) <= NameContexts
    /\ Len(voices) <= NameVoices

NextName ==
    \/ StartDocument("") /\ SizeName'
    \/ StartSheet("", "") /\ SizeName'
    \/ \E name \in NameAttrs : StartStaff("", name) /\ SizeName'
    \/ \E name \in NameAttrs : StartLyricsContext("", "", name) /\ SizeName'
    \/ StartVoice("", "") /\ SizeName'
    \/ EndOther
    \/ EndVoice
    \/ EndStaff
    \/ EndSheet
    \/ EndDocument
    \/ ImportReturn

SpecName == Init /\ [][NextName]_vars

\* How many of the first i - 1 members of the list l of contexts have the
\* type of its i-th member.
SameKindBefore(l, i) ==
    Cardinality({j \in 1..(i - 1) :
                    contexts[l[j]].contextType = contexts[l[i]].contextType})

\* C16: a sheet, context or voice opened without a name is named by its
\* kind and N, where N is 1 plus the number of sheets before it in the
\* document, of contexts of its own kind before it in the sheet, of voices
\* before it in the staff.
C16_AutoNameCountsOwnKind ==
    /\ \A d \in DOMAIN docs : \A i \in DOMAIN docs[d].sheetList :
          LET sh == sheets[docs[d].sheetList[i]] IN
          sh.nameAttr = "" => sh.name = "Sheet" \o ToString(i)
    /\ \A sh \in DOMAIN sheets : \A i \in DOMAIN sheets[sh].contextList :
          LET c == contexts[sheets[sh].contextList[i]] IN
          c.nameAttr = "" =>
             c.name = c.contextType
                         \o ToString(1 + SameKindBefore(sheets[sh].contextList,
                                                        i))
    /\ \A c \in DOMAIN contexts : \A i \in DOMAIN contexts[c].voiceList :
          LET v == voices[contexts[c].voiceList[i]] IN
          v.nameAttr = "" => v.name = "Voice" \o ToString(i)

\* The second sheet of the document, the second staff of a sheet and the
\* second voice of a staff, all opened without a name, are named Sheet2,
\* Staff2 and Voice2.
C16_Witness ==
    /\ \E sh \in DOMAIN sheets :
          sheets[sh].nameAttr = "" /\ sheets[sh].name = "Sheet2"
    /\ \E c \in DOMAIN contexts :
          /\ contexts[c].nameAttr = "" /\ contexts[c].name = "Staff2"
          /\ Len(sheets[contexts[c].sheet].contextList) = 2
    /\ \E v \in DOMAIN voices :
          voices[v].nameAttr = "" /\ voices[v].name = "Voice2"

\* C17: no two contexts of a sheet have the same name.
C17_ContextNamesUnique ==
    \A sh \in DOMAIN sheets :
       \A i, j \in DOMAIN sheets[sh].contextList :
          i # j => contexts[sheets[sh].contextList[i]].name
                      # contexts[sheets[sh].contextList[j]].name

\* A sheet holds three contexts opened without a name, two staffs around
\* a lyrics context, and their names differ.
C17_Witness ==
    \E sh \in DOMAIN sheets :
       LET l == sheets[sh].contextList IN
       /\ Len(l) = 3
       /\ \A i \in 1..3 : contexts[l[i]].nameAttr = ""
       /\ contexts[l[1]].name = "Staff1"
       /\ contexts[l[2]].name = "LyricsContext2"
       /\ contexts[l[3]].name = "Staff2"

\* --------------------------------------------------- the version string
\* The text has no leading number: no version can be read from it.
Unparseable(text) ==
    \/ text = <<>>
    \/ text[1] \notin {"0", "1", "2", "3", "4", "5", "6", "7", "8", "9"}

\* The step is the close event of a version element.
IsVersionClose ==
    /\ pc = "parsing"
    /\ open # <<>>
    /\ open[Len(open)].kind = "canorus-version"
    /\ ev'.type = "end"
    /\ ev'.kind = "canorus-version"

\* C18: the close event of a version element whose text is no version
\* returns failure and the parse stops.
C18_BadVersionFails ==
    [][(IsVersionClose /\ Unparseable(_cha))
          => (ev'.ret = "false" /\ pc' = "failed")]_vars

\* A version element with the text 0.8.0 has been closed with success and
\* the version is 0.8.0.
C18_Witness ==
    /\ ev = Event("end", "canorus-version", "true")
    /\ _version = <<0, 8, 0>>

\* C19: once a version element has given the version, no later event
\* changes it.
C19_VersionSetOnce == [][_version # <<>> => _version' = _version]_vars

\* A note has been read under the version 0.8.0 that the one version
\* element of the markup gave, and the version is still 0.8.0.
C19_Witness ==
    /\ _version = <<0, 8, 0>>
    /\ \E e \in DOMAIN elts : elts[e].versionAtOpen = <<0, 8, 0>>
    /\ pc = "returned"

\* ------------------------------------------------------ the depth stack
\* C20 as stated: after every open event that returns, with success or
\* with failure, the depth stack is the stack before it with the event's
\* kind on top.
C20_EveryOpenPushes ==
    [][(ev'.type = "start" /\ ev'.ret \in {"true", "false"})
          => _depth' = Append(_depth, ev'.kind)]_vars

\* C20: after an open event that returns success the depth stack is the
\* stack before it with the event's kind on top; an open event that
\* returns failure leaves the depth stack as it was.
C20_SuccessfulOpenPushes ==
    [][/\ (ev'.type = "start" /\ ev'.ret = "true")
             => _depth' = Append(_depth, ev'.kind)
       /\ (ev'.type = "start" /\ ev'.ret = "false")
             => _depth' = _depth]_vars

\* A voice element opened in a lyrics context has failed: the stack still
\* ends with the lyrics context, below it the sheet and the document that
\* their successful open events pushed.
C20_Witness ==
    /\ ev = Event("start", "voice", "false")
    /\ pc = "failed"
    /\ _depth = <<"document", "sheet", "lyrics-context">>

\* ------------------------------------------------------ error messages
\* One staff, a lyrics context, a voice and one sign element of each kind,
\* nested in any order: the sign branches of endElement meet every state
\* of the context and voice cursors.
ErrSheets == 1
ErrContexts == 2
ErrVoices == 1
ErrSigns == 1

SizeErr ==
    /\ Len(open) <= MaxNesting
    /\ Len(docs) <= MaxDocs
    /\ Len(sheets) <= ErrSheets
    /\ Len(contexts) <= ErrContexts
    /\ Len(voices) <= ErrVoices
    /\ SignEvents <= ErrSigns

NextErr ==
    \/ StartDocument("") /\ SizeErr'
    \/ StartSheet("", "") /\ SizeErr'
    \/ StartStaff("", "") /\ SizeErr'
    \/ StartLyricsContext("", "", "") /\ SizeErr'
    \/ StartVoice("", "") /\ SizeErr'
    \/ StartClef("", "0", "treble") /\ SizeErr'
    \/ StartTimeSignature("", "0", "4") /\ SizeErr'
    \/ StartBarline("", "0", "single") /\ SizeErr'
    \/ StartKeySignature("", "0", "major-minor", "") /\ SizeErr'
    \/ EndClef
    \/ EndTimeSignature
    \/ EndBarline
    \/ EndKeySignature
    \/ EndVoice
    \/ EndStaff
    \/ EndSheet
    \/ EndOther
    \/ EndDocument
    \/ ImportReturn

SpecErr == Init /\ [][NextErr]_vars

\* A handler found its enclosing cursor missing or of the wrong kind.
CursorFailure ==
    \/ ev.kind \in ContextKinds /\ _curSheet = NULL
    \/ ev.kind = "voice"
         /\ (IF _curContext = NULL THEN TRUE
             ELSE contexts[_curContext].contextType # "Staff")
    \/ ev.kind \in SignKinds /\ ~SignGuard

\* C21: every handler failure caused by a missing or wrongly typed
\* enclosing cursor leaves a non-empty error message, the failure of a
\* clef, key-signature, time-signature or barline close event that finds
\* no current voice or no staff-typed current context included.
C21_FailureHasMessage ==
    (pc = "failed" /\ ev.ret = "false" /\ CursorFailure) => _errorMsg # ""

\* A voice open event has failed on a lyrics context and left its message.
C21_Witness ==
    /\ pc = "failed"
    /\ ev = Event("start", "voice", "false")
    /\ _curContext # NULL
    /\ _errorMsg # ""

\* -------------------------------------------------- voice synchronization
\* Documents, one in another or one after another, their sheets, staffs,
\* lyrics contexts and voices.
SyncDocs == 2
SyncSheets == 2
SyncContexts == 3
SyncVoices == 1

SizeSync ==
    /\ Len(open) <= MaxNesting
    /\ Len(docs) <= SyncDocs
    /\ Len(sheets) <= SyncSheets
    /\ Len(contexts) <= SyncContexts
    /\ Len(voices) <= SyncVoices

NextSync ==
    \/ StartDocument("") /\ SizeSync'
    \/ StartSheet("", "") /\ SizeSync'
    \/ StartStaff("", "") /\ SizeSync'
    \/ StartLyricsContext("", "", "") /\ SizeSync'
    \/ StartVoice("", "") /\ SizeSync'
    \/ EndOther
    \/ EndVoice
    \/ EndStaff
    \/ EndSheet
    \/ EndDocument
    \/ ImportReturn

SpecSync == Init /\ [][NextSync]_vars

\* The context is a staff of a sheet of the document being imported.
StaffOfDocument(c) ==
    /\ _document # NULL
    /\ contexts[c].contextType = "Staff"
    /\ contexts[c].sheet # NULL
    /\ sheets[contexts[c].sheet].document = _document

DocApiFrame ==
    UNCHANGED <<tokVars, contexts, voices, elts, cursorVars, _document,
                _version, _errorMsg, _depth, _cha, _color, bufVars, auxVars,
                _lcMap, _syllableMap, decls, menuToolButton>>

\* CASheet::CASheet(name, doc): a sheet that knows its document and is in
\* no list.
NewSheet(name, doc) ==
    [document |-> doc, contextList |-> <<>>, closed |-> FALSE,
     name |-> name, nameAttr |-> name]

\* A caller builds a sheet for a document and keeps it.
ConstructSheet(doc) ==
    /\ sheets' = Append(sheets, NewSheet("Sheet", doc))
    /\ UNCHANGED docs
    /\ DocApiFrame

\* CADocument::CADocument(), called by a user of the class.
ConstructDocument ==
    /\ docs' = Append(docs, [sheetList |-> <<>>])
    /\ UNCHANGED sheets
    /\ DocApiFrame

\* CADocument::addSheetByName, lines 111-116.
addSheetByName(d, name) ==
    /\ sheets' = Append(sheets, NewSheet(name, d))
    /\ docs' = [docs EXCEPT ![d].sheetList = Append(@, Len(sheets) + 1)]
    /\ DocApiFrame

\* CADocument::addSheet(CASheet*), lines 124-127: the sheet is appended and
\* told its document; no list it is in already is touched.
addSheet(d, s) ==
    /\ docs' = [docs EXCEPT ![d].sheetList = Append(@, s)]
    /\ sheets' = [sheets EXCEPT ![s].document = d]
    /\ DocApiFrame

\* CADocument::addSheet(), lines 132-137.
addEmptySheet(d) ==
    /\ sheets' =
          Append(sheets,
                 NewSheet(ArgName("Sheet", Len(docs[d].sheetList) + 1), d))
    /\ docs' = [docs EXCEPT ![d].sheetList = Append(@, Len(sheets) + 1)]
    /\ DocApiFrame

\* CADocument::clone, lines 43-67: a new document that takes a clone of
\* every sheet, in order.  CASheet::clone() returns a new sheet in no list.
clone(d) ==
    LET n == Len(docs[d].sheetList)
        copy(i) == [sheets[docs[d].sheetList[i]] EXCEPT
                       !.document = Len(docs) + 1]
    IN  /\ sheets' = sheets \o [i \in 1..n |-> copy(i)]
        /\ docs' = Append(docs,
                      [sheetList |-> [i \in 1..n |-> Len(sheets) + i]])
        /\ DocApiFrame

DocDocs == 3
DocSheets == 3
DocEntries == 3

\* The sum of the lengths of the sheet lists of the first n documents.
RECURSIVE ListedSheets(_, _)
ListedSheets(ds, n) ==
    IF n = 0 THEN 0 ELSE Len(ds[n].sheetList) + ListedSheets(ds, n - 1)

SizeDoc ==
    /\ Len(open) <= MaxNesting
    /\ Len(docs) <= DocDocs
    /\ Len(sheets) <= DocSheets
    /\ ListedSheets(docs, Len(docs)) <= DocEntries

NextDoc ==
    \/ StartDocument("") /\ SizeDoc'
    \/ StartSheet("", "") /\ SizeDoc'
    \/ EndSheet
    \/ EndDocument
    \/ ConstructDocument /\ SizeDoc'
    \/ \E d \in DOMAIN docs : ConstructSheet(d) /\ SizeDoc'
    \/ \E d \in DOMAIN docs : addSheetByName(d, "Sheet") /\ SizeDoc'
    \/ \E d \in DOMAIN docs, s \in DOMAIN sheets : addSheet(d, s) /\ SizeDoc'
    \/ \E d \in DOMAIN docs : addEmptySheet(d) /\ SizeDoc'
    \/ \E d \in DOMAIN docs : clone(d) /\ SizeDoc'

SpecDoc == Init /\ [][NextDoc]_vars

\* C23: after any sequence of sheet open events and of addSheet,
\* addSheetByName and clone calls, every sheet in a document's sheet list
\* has that document as its back-reference.
C23_SheetsPointBack ==
    \A d \in DOMAIN docs :
       \A i \in 1..Len(docs[d].sheetList) :
          sheets[docs[d].sheetList[i]].document = d

\* Two documents list three sheets between them, each sheet in the list
\* of the document it points back to.
C23_Witness ==
    /\ Len(docs) = 2
    /\ docs[1].sheetList = <<1, 2>>
    /\ docs[2].sheetList = <<3>>
    /\ sheets[3].document = 2
    /\ sheets[1].document = 1 /\ sheets[2].document = 1

\* ------------------------------------------------------- tuplet timing
\* One voice with a tuplet of the ratio 3:2, notes and rests in it and
\* around it, each with a length element of a quarter or a half.
TupletTuplets == 1
TupletPlayables == 3
TupletNumberAttrs == {"3"}
TupletActualAttrs == {"2"}
TupletLengthAttrs == {"quarter", "half"}

SizeTuplet ==
    /\ Len(docs) <= MaxDocs
    /\ Len(sheets) <= 1
    /\ Len(contexts) <= 1
    /\ Len(voices) <= 1
    /\ Built("Tuplet") <= TupletTuplets
    /\ Built("Note") + Built("Rest") <= TupletPlayables

NextTuplet ==
    \/ StartDocument("") /\ SizeTuplet'
    \/ StartSheet("", "") /\ SizeTuplet'
    \/ StartStaff("", "") /\ SizeTuplet'
    \/ StartVoice("", "") /\ SizeTuplet'
    \/ \E n \in TupletNumberAttrs, a \in TupletActualAttrs :
          StartTuplet("", n, a) /\ InVoice /\ SizeTuplet'
    \/ StartNote("", "0", "", "") /\ _curVoice # NULL /\ SizeTuplet'
    \/ StartRest("", "0", "") /\ _curVoice # NULL /\ SizeTuplet'
    \/ \E len \in TupletLengthAttrs :
          StartPlayableLength(len) /\ InPlayable /\ SizeTuplet'
    \/ EndOther
    \/ EndNote
    \/ EndRest
    \/ EndTuplet
    \/ EndVoice
    \/ EndStaff
    \/ EndSheet
    \/ EndDocument
    \/ ImportReturn

SpecTuplet == Init /\ [][NextTuplet]_vars

\* The tuplets whose close event has run: the tuplet cursor has left them.
ClosedTuplets ==
    {t \in DOMAIN elts :
        /\ elts[t].musElementType = "Tuplet"
        /\ _curTuplet # t
        /\ \A i \in 1..Len(open) : open[i].kind # "tuplet"}

\* A closed tuplet of ratio 3:2 that groups three quarter notes.
TripletOfQuarters(t) ==
    /\ t \in ClosedTuplets
    /\ elts[t].attr = <<3, 2>>
    /\ Len(elts[t].noteList) = 3
    /\ \A i \in 1..3 :
          /\ elts[elts[t].noteList[i]].musElementType = "Note"
          /\ elts[elts[t].noteList[i]].playableLength = "quarter"

MenuFrame ==
    UNCHANGED <<tokVars, graphVars, cursorVars, _document, _version,
                _errorMsg, _depth, _cha, _color, bufVars, auxVars, _lcMap,
                _syllableMap, decls>>

\* QButtonGroup::button(id): the first button added with the id, or none
\* (position 0).
button(w, id) ==
    LET S == {i \in 1..Len(w._buttonList) : w._buttonList[i].id = id} IN
    IF S = {} THEN 0 ELSE CHOOSE i \in S : \A j \in S : i <= j

\* CAToolButton::setCurrentId(id): the setter of the current id.
toolButtonSetCurrentId(w, id) == [w EXCEPT !._currentId = id]

\* CAMenuToolButton::setCurrentId, lines 203-215.
setCurrentId(w, id, triggerSignal) ==
    LET w1 == toolButtonSetCurrentId(w, id) IN
    IF button(w1, id) = 0 THEN w1
    ELSE LET w2 == IF w1.defaultAction
                   THEN [w1 EXCEPT !.actionIcon =
                            w1._buttonList[button(w1, id)].icon]
                   ELSE w1
         IN  IF triggerSignal
             THEN [w2 EXCEPT !.toggled = Append(@, <<FALSE, id>>)]
             ELSE w2

\* A caller sets the current item.
SetCurrentId(id, triggerSignal) ==
    /\ menuToolButton' =
          [setCurrentId(menuToolButton, id, triggerSignal) EXCEPT
              !.call = [name |-> "setCurrentId", id |-> id,
                        triggerSignal |-> triggerSignal]]
    /\ MenuFrame

\* CAMenuToolButton::addButton, lines 105-141: the button joins the list
\* and the button group under its id (the layout is left out).
addButton(icon, buttonId) ==
    /\ menuToolButton' =
          [menuToolButton EXCEPT
              !._buttonList = Append(@, [id |-> buttonId, icon |-> icon]),
              !.call = [name |-> "addButton", id |-> buttonId,
                        triggerSignal |-> FALSE]]
    /\ MenuFrame

\* QToolButton::setDefaultAction(action), called by the main window.
setDefaultAction ==
    /\ ~menuToolButton.defaultAction
    /\ menuToolButton' =
          [menuToolButton EXCEPT
              !.defaultAction = TRUE,
              !.call = [name |-> "setDefaultAction", id |-> NoId,
                        triggerSignal |-> FALSE]]
    /\ MenuFrame

MenuButtons == 2
MenuSignals == 2
MenuIds == {0, 1, 2}
MenuIcons == {"whole", "half"}

SizeMenu ==
    /\ Len(menuToolButton._buttonList) <= MenuButtons
    /\ Len(menuToolButton.toggled) <= MenuSignals

NextMenu ==
    \/ \E icon \in MenuIcons, id \in MenuIds : addButton(icon, id) /\ SizeMenu'
    \/ setDefaultAction
    \/ \E id \in MenuIds, t \in BOOLEAN : SetCurrentId(id, t) /\ SizeMenu'

SpecMenu == Init /\ [][NextMenu]_vars

\* The step is a setCurrentId call.
IsSetCurrentId ==
    /\ menuToolButton' # menuToolButton
    /\ menuToolButton'.call.name = "setCurrentId"

\* C25: setCurrentId(id) with an id that is no button's id leaves the
\* current id as it was, and the call emits toggled() only when
\* triggerSignal is true and the id is a button's id.
C25_InvalidIdKeepsCurrent ==
    [][IsSetCurrentId =>
          LET id == menuToolButton'.call.id
              valid == button(menuToolButton, id) # 0
          IN  /\ ~valid => menuToolButton'._currentId
                              = menuToolButton._currentId
              /\ menuToolButton'.toggled # menuToolButton.toggled
                    => (menuToolButton'.call.triggerSignal /\ valid)]_vars

\* setCurrentId has been called with a button's id and triggerSignal true:
\* the id is current and toggled(false, id) was emitted.
C25_Witness ==
    /\ menuToolButton.call =
          [name |-> "setCurrentId", id |-> 1, triggerSignal |-> TRUE]
    /\ button(menuToolButton, 1) # 0
    /\ menuToolButton._currentId = 1
    /\ menuToolButton.toggled = <<(<<FALSE, 1>>)>>

\* --------------------------------------------------------------- slurs
\* One voice with notes at two start times, the ties, slurs and phrasing
\* slurs that start and end on them, and tempo marks nested in any of
\* these.
SlurNotes == 2
SlurSlurs == 2
SlurMarks == 2
SlurFamily == {"tie", "slur-start", "phrasing-slur-start"}

SizeSlur ==
    /\ Len(docs) <= MaxDocs
    /\ Len(sheets) <= 1
    /\ Len(contexts) <= 1
    /\ Len(voices) <= 1
    /\ Built("Note") <= SlurNotes
    /\ Built("Slur") <= SlurSlurs
    /\ Built("Mark") <= SlurMarks

InSlur == IF open = <<>> THEN FALSE ELSE Top(open).kind \in SlurFamily

NextSlur ==
    \/ StartDocument("") /\ SizeSlur'
    \/ StartSheet("", "") /\ SizeSlur'
    \/ StartStaff("", "") /\ SizeSlur'
    \/ StartVoice("", "") /\ SizeSlur'
    \/ \E ts \in TimeStartAttrs :
          StartNote("", ts, "", "") /\ InVoice /\ SizeSlur'
    \/ StartTie("") /\ InNote /\ SizeSlur'
    \/ StartSlurStart("") /\ InNote /\ SizeSlur'
    \/ StartPhrasingSlurStart("") /\ InNote /\ SizeSlur'
    \/ StartSlurEnd /\ (InNote \/ InVoice) /\ SizeSlur'
    \/ StartPhrasingSlurEnd /\ (InNote \/ InVoice) /\ SizeSlur'
    \/ StartMark("", "Tempo") /\ InSlur /\ SizeSlur'
    \/ EndMark
    \/ EndOther
    \/ EndNote
    \/ EndVoice
    \/ EndStaff
    \/ EndSheet
    \/ EndDocument
    \/ ImportReturn

SpecSlur == Init /\ [][NextSlur]_vars

\* The marks the import has built, in the order of their open events.
MarksBuilt ==
    SelectSeq([e \in 1..Len(elts) |-> e],
              LAMBDA e : elts[e].musElementType = "Mark")

\* C26: while a tie, slur-start or phrasing-slur-start element is the
\* innermost open element or has only mark elements open inside it, the
\* generic music-element cursor is the slur the element built: the close
\* of a nested element does not restore the cursor, and every mark nested
\* in the slur element attaches to the slur.
C26_CursorIsSlurUntilOwnClose ==
    /\ \A i \in 1..Len(open) :
          (/\ pc = "parsing"
           /\ open[i].kind \in SlurFamily
           /\ \A j \in (i + 1)..Len(open) : open[j].kind = "mark")
             => _curMusElt = open[i].a.obj
    /\ \A m \in Range(MarksBuilt) :
          elts[elts[m].associatedElt].musElementType = "Slur"

\* A mark nested in a slur-start element has been opened and is attached
\* to the slur, which is the generic cursor.
C26_Witness ==
    /\ ev = Event("start", "mark", "true")
    /\ Len(open) >= 2
    /\ open[Len(open) - 1].kind = "slur-start"
    /\ _curMusElt = open[Len(open) - 1].a.obj
    /\ elts[_curMark].associatedElt = _curMusElt
    /\ _prevMusElt = _curNote

\* The step is the open event of a slur-end (phrasing-slur-end) element.
IsSlurEnd(kind) == ev'.type = "start" /\ ev'.kind = kind

\* What a slur end has to leave behind for the slur and the note.
SlurBound(slur, note, endField) ==
    /\ elts'[slur].noteEnd = note
    /\ elts'[note][endField] = slur
    /\ elts'[slur].timeLength =
          elts[note].timeStart - elts[elts[slur].noteStart].timeStart

\* C27: a slur-end (phrasing-slur-end) open event with an open slur of its
\* kind succeeds, makes the current note the slur's end note, links the
\* note to the slur, sets the slur's time length to the end note's start
\* time minus the start note's, and clears the open-slur cursor; with no
\* open slur of its kind it succeeds and changes neither the graph nor a
\* slur cursor.
C27_SlurEndBinds ==
    [][/\ IsSlurEnd("slur-end") =>
             /\ ev'.ret = "true"
             /\ IF _curSlur # NULL
                THEN SlurBound(_curSlur, _curNote, "slurEnd")
                        /\ _curSlur' = NULL
                ELSE UNCHANGED <<graphVars, _curSlur, _curPhrasingSlur>>
       /\ IsSlurEnd("phrasing-slur-end") =>
             /\ ev'.ret = "true"
             /\ IF _curPhrasingSlur # NULL
                THEN SlurBound(_curPhrasingSlur, _curNote, "phrasingSlurEnd")
                        /\ _curPhrasingSlur' = NULL
                ELSE UNCHANGED <<graphVars, _curSlur, _curPhrasingSlur>>]_vars

\* A slur that starts on the first note has been ended on the second,
\* one time unit later; the slur cursor is clear.
C27_Witness ==
    /\ ev = Event("start", "slur-end", "true")
    /\ _curSlur = NULL
    /\ _curNote # NULL
    /\ elts[_curNote].slurEnd # NULL
    /\ elts[elts[_curNote].slurEnd].noteEnd = _curNote
    /\ elts[elts[_curNote].slurEnd].noteStart # _curNote
    /\ elts[elts[_curNote].slurEnd].timeLength = 1

\* ------------------------------------------------------ length buffers
\* One voice with notes and rests, tempo marks on them and length
\* elements in the notes, in the rests, in the marks and around them.
LengthPlayables == 2
LengthMarks == 1

SizeLength ==
    /\ Len(docs) <= MaxDocs
    /\ Len(sheets) <= 1
    /\ Len(contexts) <= 1
    /\ Len(voices) <= 1
    /\ Built("Note") + Built("Rest") <= LengthPlayables
    /\ Built("Mark") <= LengthMarks

\* Where the markup has its length elements: at the root, in the voice,
\* in a note, in a rest or in a mark.
LengthPlace ==
    IF open = <<>> THEN TRUE
    ELSE Top(open).kind \in {"voice", "note", "rest", "mark"}

NextLength ==
    \/ StartDocument("") /\ SizeLength'
    \/ StartSheet("", "") /\ SizeLength'
    \/ StartStaff("", "") /\ SizeLength'
    \/ StartVoice("", "") /\ SizeLength'
    \/ StartNote("", "0", "", "") /\ InVoice /\ SizeLength'
    \/ StartRest("", "0", "") /\ InVoice /\ SizeLength'
    \/ StartMark("", "Tempo") /\ InPlayable /\ SizeLength'
    \/ \E len \in TupletLengthAttrs :
          StartPlayableLength(len) /\ LengthPlace /\ SizeLength'
    \/ EndMark
    \/ EndOther
    \/ EndNote
    \/ EndRest
    \/ EndVoice
    \/ EndStaff
    \/ EndSheet
    \/ EndDocument
    \/ ImportReturn

SpecLength == Init /\ [][NextLength]_vars

\* The step is the open event of a length element that has a parent.
IsNestedLength ==
    /\ ev'.type = "start" /\ ev'.kind = "playable-length"
    /\ ev'.ret = "true"
    /\ open # <<>>

\* C28: a playable-length open event directly in a mark element sets the
\* tempo length buffer to its length and leaves the note/rest length
\* buffer as it was; directly in any other element it sets the note/rest
\* length buffer and leaves the tempo length buffer as it was.
C28_LengthGoesToOneBuffer ==
    [][IsNestedLength =>
          LET pl == musicLengthFromString(Top(open').a.attr[1]) IN
          IF Top(open).kind = "mark"
          THEN /\ _curTempoPlayableLength' = pl
               /\ _curPlayableLength' = _curPlayableLength
          ELSE /\ _curPlayableLength' = pl
               /\ _curTempoPlayableLength' = _curTempoPlayableLength]_vars

\* The length element of a tempo mark nested in a note has been opened
\* after the note's own length element: the note buffer holds a quarter,
\* the tempo buffer a half.
C28_Witness ==
    /\ ev = Event("start", "playable-length", "true")
    /\ Len(open) >= 3
    /\ open[Len(open) - 1].kind = "mark"
    /\ open[Len(open) - 2].kind = "note"
    /\ _curPlayableLength = "quarter"
    /\ _curTempoPlayableLength = "half"

\* -------------------------------------------------------------- chords
\* One voice with notes, rests and barlines at two start times, in any
\* order.
ChordElements == 4

SizeChord ==
    /\ Len(docs) <= MaxDocs
    /\ Len(sheets) <= 1
    /\ Len(contexts) <= 1
    /\ Len(voices) <= 1
    /\ Len(elts) <= ChordElements

NextChord ==
    \/ StartDocument("") /\ SizeChord'
    \/ StartSheet("", "") /\ SizeChord'
    \/ StartStaff("", "") /\ SizeChord'
    \/ StartVoice("", "") /\ SizeChord'
    \/ \E ts \in TimeStartAttrs :
          StartNote("", ts, "", "") /\ InVoice /\ SizeChord'
    \/ \E ts \in TimeStartAttrs : StartRest("", ts, "") /\ InVoice /\ SizeChord'
    \/ \E ts \in TimeStartAttrs :
          StartBarline("", ts, "single") /\ InVoice /\ SizeChord'
    \/ EndNote
    \/ EndRest
    \/ EndBarline
    \/ EndVoice
    \/ EndStaff
    \/ EndSheet
    \/ EndDocument
    \/ ImportReturn

SpecChord == Init /\ [][NextChord]_vars

\* The notes among the elements of the voice, by position in its list.
NotePositions(v) ==
    {i \in 1..Len(voices[v].musElementList) :
        elts[voices[v].musElementList[i]].musElementType = "Note"}

ClosedNested ==
    {e \in DOMAIN elts :
        /\ elts[e].musElementType \in {"Note", "Rest"}
        /\ elts[e].bufAtClose # <<>>
        /\ ~IsPrefixOf(<<0, 5>>, elts[e].versionAtOpen)}

\* The tuplets that list the element as a member.
TupletsOf(e) ==
    {t \in DOMAIN elts :
        elts[t].musElementType = "Tuplet" /\ e \in Range(elts[t].noteList)}

\* C30: the close event of a note or rest of the nested shape derives the
\* time length from the playable length if and only if the element is not
\* a member of a tuplet; a member keeps the time length it was built with
\* while its tuplet is the open one, whose close event assigns one.
C30_DerivedUnlessInTuplet ==
    \A e \in ClosedNested :
       /\ elts[e].derived <=> TupletsOf(e) = {}
       /\ TupletsOf(e) = {} =>
             elts[e].timeLength = calculateTimeLength(elts[e].playableLength)
       /\ _curTuplet \in TupletsOf(e) => elts[e].timeLength = 0

\* A note closed inside an open tuplet has a playable length and no time
\* length yet, and a rest closed before the tuplet was opened has the time
\* length of its playable length.
C30_Witness ==
    \E n, r \in ClosedNested :
       /\ elts[n].musElementType = "Note"
       /\ elts[n].playableLength = "quarter"
       /\ elts[n].timeLength = 0
       /\ ~elts[n].derived
       /\ _curTuplet \in TupletsOf(n)
       /\ elts[r].musElementType = "Rest"
       /\ elts[r].playableLength = "half"
       /\ elts[r].timeLength = 512
       /\ elts[r].derived

\* ------------------------------------------------------ tuplet members
\* One voice with tuplets inside and beside each other and notes and
\* rests in and around them.
MemberTuplets == 2
MemberPlayables == 2

SizeMember ==
    /\ Len(open) <= MaxNesting
    /\ Len(docs) <= MaxDocs
    /\ Len(sheets) <= 1
    /\ Len(contexts) <= 1
    /\ Len(voices) <= 1
    /\ Built("Tuplet") <= MemberTuplets
    /\ Built("Note") + Built("Rest") <= MemberPlayables

\* Tuplets, notes and rests are children of a voice or of a tuplet.
InVoiceOrTuplet ==
    IF open = <<>> THEN FALSE ELSE Top(open).kind \in {"voice", "tuplet"}

NextMember ==
    \/ StartDocument("") /\ SizeMember'
    \/ StartSheet("", "") /\ SizeMember'
    \/ StartStaff("", "") /\ SizeMember'
    \/ StartVoice("", "") /\ SizeMember'
    \/ StartTuplet("", "3", "2") /\ InVoiceOrTuplet /\ SizeMember'
    \/ StartNote("", "0", "", "") /\ InVoiceOrTuplet /\ SizeMember'
    \/ StartRest("", "0", "") /\ InVoiceOrTuplet /\ SizeMember'
    \/ EndNote
    \/ EndRest
    \/ EndTuplet
    \/ EndVoice
    \/ EndStaff
    \/ EndSheet
    \/ EndDocument
    \/ ImportReturn

SpecMember == Init /\ [][NextMember]_vars

Playables == {e \in DOMAIN elts : isPlayable(e)}
Tuplets == {t \in DOMAIN elts : elts[t].musElementType = "Tuplet"}

\* C31: a note or rest is a member of a tuplet exactly when the tuplet's
\* element was open at its open event; a member refers to its tuplet, the
\* members are listed in open order, and an element opened while no tuplet
\* element was open has no tuplet.
C31_MemberWhileTupletOpen ==
    /\ \A e \in Playables, t \in Tuplets :
          /\ e \in Range(elts[t].noteList) <=> t \in elts[e].within
          /\ e \in Range(elts[t].noteList) => elts[e].tuplet = t
    /\ \A t \in Tuplets :
          \A i, j \in 1..Len(elts[t].noteList) :
             i < j => elts[t].noteList[i] < elts[t].noteList[j]
    /\ \A e \in Playables : elts[e].within = {} => elts[e].tuplet = NULL

\* A note opened between the close event of an inner tuplet and that of the
\* tuplet around it: the outer tuplet's element is open and does not list it.
C31_Witness ==
    \E e \in Playables, t \in Tuplets :
       /\ elts[e].within = {t}
       /\ OpenTuplets = <<t>>
       /\ elts[t].noteList = <<>>
       /\ elts[e].tuplet = NULL
       /\ _curTuplet = NULL
       /\ Built("Tuplet") = 2

\* ------------------------------------------- elements outside a voice
\* One staff with one voice; signs, notes and rests anywhere in the
\* markup: in the voice, before it and after it.
LooseElements == 2

SizeLoose ==
    /\ Len(open) <= MaxNesting
    /\ Len(docs) <= MaxDocs
    /\ Len(sheets) <= 1
    /\ Len(contexts) <= 1
    /\ Len(voices) <= 1
    /\ Len(elts) <= LooseElements
    /\ SignEvents + Built("Note") + Built("Rest") <= LooseElements

NextLoose ==
    \/ StartDocument("") /\ SizeLoose'
    \/ StartSheet("", "") /\ SizeLoose'
    \/ StartStaff("", "") /\ SizeLoose'
    \/ StartVoice("", "") /\ SizeLoose'
    \/ StartClef("", "0", "treble") /\ SizeLoose'
    \/ StartTimeSignature("", "0", "4") /\ SizeLoose'
    \/ StartBarline("", "0", "single") /\ SizeLoose'
    \/ \E kst \in KeySigTypeAttrs :
          StartKeySignature("", "0", kst, "dorian") /\ SizeLoose'
    \/ StartNote("", "0", "", "") /\ SizeLoose'
    \/ StartRest("", "0", "") /\ SizeLoose'
    \/ EndClef
    \/ EndTimeSignature
    \/ EndBarline
    \/ EndKeySignature
    \/ EndNote
    \/ EndRest
    \/ EndVoice
    \/ EndStaff
    \/ EndSheet
    \/ EndDocument
    \/ ImportReturn

SpecLoose == Init /\ [][NextLoose]_vars

\* The element kinds a voice holds.
VoiceElementKinds == SignKinds \cup {"note", "rest"}

\* C32: an open or close event of a sign, note or rest that finds the voice
\* cursor unset ends in a reported failure: it does not fault on the unset
\* cursor, it does not return true, and no note or rest built without a
\* voice is in a voice.
C32_NoVoiceFails ==
    /\ (ev.type \in {"start", "end"} /\ ev.kind \in VoiceElementKinds
          /\ _curVoice = NULL) => ev.ret = "false"
    /\ \A v \in DOMAIN voices :
          \A e \in Range(voices[v].musElementList) :
             isPlayable(e) => elts[e].voice # NULL

\* The open event of a clef after the voice closed has faulted on the
\* unset voice cursor.
C32_Witness ==
    /\ pc = "crashed"
    /\ ev.type = "start" /\ ev.kind = "clef"
    /\ _curVoice = NULL
    /\ Len(voices) = 1

\* ------------------------------------- elements and their owning context
\* One sheet with contexts of every kind and a syllable, figured-bass
\* mark, function mark or chord name anywhere in the markup.
OwnedContexts == 2
OwnedElements == 1

SizeOwned ==
    /\ Len(open) <= MaxNesting
    /\ Len(docs) <= MaxDocs
    /\ Len(sheets) <= 1
    /\ Len(contexts) <= OwnedContexts
    /\ Len(elts) <= OwnedElements

NextOwned ==
    \/ StartDocument("") /\ SizeOwned'
    \/ StartSheet("", "") /\ SizeOwned'
    \/ StartStaff("", "") /\ SizeOwned'
    \/ StartLyricsContext("", "", "") /\ SizeOwned'
    \/ StartFiguredBassContext("", "") /\ SizeOwned'
    \/ StartFunctionMarkContext("", "") /\ SizeOwned'
    \/ StartChordNameContext("", "") /\ SizeOwned'
    \/ StartSyllable("", "0", "") /\ SizeOwned'
    \/ StartFiguredBassMark("", "0") /\ SizeOwned'
    \/ StartFunctionMark("", "0", "") /\ SizeOwned'
    \/ StartChordName("", "0", "") /\ SizeOwned'
    \/ EndFunctionMark
    \/ EndChordName
    \/ EndStaff
    \/ EndOther
    \/ EndSheet
    \/ EndDocument
    \/ ImportReturn

SpecOwned == Init /\ [][NextOwned]_vars

\* The context class that owns an element kind.
OwnerOf(kind) ==
    CASE kind = "syllable" -> "LyricsContext"
      [] kind = "figured-bass-mark" -> "FiguredBassContext"
      [] kind = "function-mark" -> "FunctionMarkContext"
      [] kind = "chord-name" -> "ChordNameContext"

\* The elements the contexts list.
ListedElements ==
    UNION {Range(contexts[c].syllableList)
             \cup Range(contexts[c].figuredBassMarkList)
             \cup Range(contexts[c].functionMarkList)
             \cup Range(contexts[c].chordNameList) : c \in DOMAIN contexts}

\* C33: the open event of a syllable, figured-bass mark, function mark or
\* chord name that finds the context cursor unset or on a context of
\* another kind returns false with an error message, and every element a
\* context lists is listed by a context of the kind that owns it.
C33_WrongContextFails ==
    /\ (/\ ev.type = "start"
        /\ ev.kind \in {"syllable", "figured-bass-mark", "function-mark",
                        "chord-name"}
        /\ (IF _curContext = NULL THEN TRUE
            ELSE contexts[_curContext].contextType # OwnerOf(ev.kind)))
       => (ev.ret = "false" /\ _errorMsg # "")
    /\ \A e \in ListedElements :
          /\ elts[e].context # NULL
          /\ contexts[elts[e].context].contextType
                = CASE elts[e].musElementType = "Syllable" -> "LyricsContext"
                    [] elts[e].musElementType = "FiguredBassMark"
                          -> "FiguredBassContext"
                    [] elts[e].musElementType = "FunctionMark"
                          -> "FunctionMarkContext"
                    [] elts[e].musElementType = "ChordName"
                          -> "ChordNameContext"

\* The open event of a chord name in a staff has built the chord name on
\* the staff and returned true.
C33_Witness ==
    /\ ev.type = "start" /\ ev.kind = "chord-name" /\ ev.ret = "true"
    /\ _curContext # NULL
    /\ contexts[_curContext].contextType = "Staff"
    /\ _curMusElt # NULL
    /\ elts[_curMusElt].musElementType = "ChordName"
    /\ elts[_curMusElt].context = _curContext

\* ------------------------------------------------ key-signature cursor
\* C34: the open event of a key signature of any sub-kind leaves the
\* key-signature cursor and the element cursor on a key signature that
\* this event built; it uses no unset key-signature cursor, and no voice
\* holds a key signature twice.
C34_KeySigCursorIsFresh ==
    /\ (ev.type = "start" /\ ev.kind = "key-signature" /\ ev.ret = "true")
          => /\ _curKeySig = Len(elts)
             /\ _curMusElt = _curKeySig
             /\ elts[_curKeySig].musElementType = "KeySignature"
             /\ elts[_curKeySig].attr[1]
                   = KeySignatureTypeFromString(Top(open).a.attr[1])
    /\ ~(/\ ev.type = "start" /\ ev.kind = "key-signature"
         /\ ev.ret = "crash" /\ _curVoice # NULL)
    /\ \A v \in DOMAIN voices :
          \A i, j \in 1..Len(voices[v].musElementList) :
             (/\ i < j
              /\ elts[voices[v].musElementList[i]].musElementType
                    = "KeySignature")
                => voices[v].musElementList[i] # voices[v].musElementList[j]

\* A Custom key signature was opened and closed after a Modus key signature
\* in one voice: the close event ran on the Modus object, now recolored
\* target of the cursor, and appended it to the voice a second time.
C34_Witness ==
    \E i \in 1..Len(decls) :
       /\ decls[i].kind = "key-signature"
       /\ decls[i].attr[1] = "custom"
       /\ elts[decls[i].obj].attr[1] = "Modus"
       /\ Cardinality({k \in 1..Len(voices[decls[i].voice].musElementList) :
             voices[decls[i].voice].musElementList[k] = decls[i].obj}) = 2

\* ----------------------------------------------------- element colours
\* A file with no version or of version 0.7.3 or 0.8.0 (one version
\* element, before the sheet), one staff and one voice and then another
\* context of any kind, and elements of every kind that takes a colour,
\* each with or without a color attribute.
PaintContexts == 2
PaintElements == 2
PaintColorAttrs == {"", "#ff0000"}
PaintVersionTexts ==
    { <<"0", ".", "7", ".", "3">>, <<"0", ".", "8", ".", "0">> }

SizePaint ==
    /\ Len(open) <= MaxNesting
    /\ Len(docs) <= MaxDocs
    /\ Len(sheets) <= 1
    /\ Len(contexts) <= PaintContexts
    /\ Cardinality({c \in DOMAIN contexts :
                       contexts[c].contextType = "Staff"}) <= 1
    /\ Len(voices) <= 1
    /\ Len(elts) <= PaintElements
    /\ SignEvents <= PaintElements

\* The kind of the innermost open element is one of the kinds given.
Under(kinds) == IF open = <<>> THEN FALSE ELSE Top(open).kind \in kinds

\* The sheet lists its staff first: another context opens in the sheet
\* once the staff is built.
AfterStaff == Under({"sheet"}) /\ contexts # <<>>

NextPaint ==
    \/ StartOther("canorus-version", "") /\ Under({"document"})
          /\ _version = <<>> /\ sheets = <<>> /\ SizePaint'
    \/ \E t \in PaintVersionTexts :
          Characters(t) /\ Top(open).kind = "canorus-version" /\ _cha = <<>>
    \/ EndCanorusVersion
    \/ StartDocument("") /\ SizePaint'
    \/ StartSheet("", "") /\ SizePaint'
    \/ StartStaff("", "") /\ Under({"sheet"}) /\ SizePaint'
    \/ StartLyricsContext("", "", "") /\ AfterStaff /\ SizePaint'
    \/ StartFiguredBassContext("", "") /\ AfterStaff /\ SizePaint'
    \/ StartFunctionMarkContext("", "") /\ AfterStaff /\ SizePaint'
    \/ StartChordNameContext("", "") /\ AfterStaff /\ SizePaint'
    \/ StartVoice("", "") /\ Under({"staff"}) /\ SizePaint'
    \/ \E color \in PaintColorAttrs :
          StartClef(color, "0", "treble") /\ InVoice /\ SizePaint'
    \/ \E color \in PaintColorAttrs :
          StartTimeSignature(color, "0", "4") /\ InVoice /\ SizePaint'
    \/ \E color \in PaintColorAttrs, kst \in KeySigTypeAttrs :
          StartKeySignature(color, "0", kst, "dorian") /\ InVoice
             /\ SizePaint'
    \/ \E color \in PaintColorAttrs :
          StartBarline(color, "0", "single") /\ InVoice /\ SizePaint'
    \/ \E color \in PaintColorAttrs :
          StartNote(color, "0", "", "") /\ Under({"voice", "tuplet"})
             /\ SizePaint'
    \/ \E color \in PaintColorAttrs :
          StartRest(color, "0", "") /\ Under({"voice", "tuplet"})
             /\ SizePaint'
    \/ \E color \in PaintColorAttrs :
          StartTuplet(color, "3", "2") /\ InVoice /\ SizePaint'
    \/ \E color \in PaintColorAttrs : StartTie(color) /\ InNote /\ SizePaint'
    \/ \E color \in PaintColorAttrs :
          StartSlurStart(color) /\ InNote /\ SizePaint'
    \/ \E color \in PaintColorAttrs :
          StartPhrasingSlurStart(color) /\ InNote /\ SizePaint'
    \/ \E color \in PaintColorAttrs :
          StartMark(color, "Text") /\ Under({"note", "rest"}) /\ SizePaint'
    \/ \E color \in PaintColorAttrs :
          StartSyllable(color, "0", "") /\ Under({"lyrics-context"})
             /\ SizePaint'
    \/ \E color \in PaintColorAttrs :
          StartFiguredBassMark(color, "0")
             /\ Under({"figured-bass-context"}) /\ SizePaint'
    \/ \E color \in PaintColorAttrs :
          StartFunctionMark(color, "0", "")
             /\ Under({"function-mark-context"}) /\ SizePaint'
    \/ \E color \in PaintColorAttrs :
          StartChordName(color, "0", "") /\ Under({"chord-name-context"})
             /\ SizePaint'
    \/ EndClef
    \/ EndTimeSignature
    \/ EndKeySignature
    \/ EndBarline
    \/ EndNote
    \/ EndRest
    \/ EndTuplet
    \/ EndMark
    \/ EndFunctionMark
    \/ EndChordName
    \/ EndOther
    \/ EndVoice
    \/ EndStaff
    \/ EndSheet
    \/ EndDocument
    \/ ImportReturn

SpecPaint == Init /\ [][NextPaint]_vars

\* The colour an element's own color attribute names under the version in
\* force at its open event.
OwnColor(e) ==
    IF elts[e].colorAttr = "" \/ AtOrBefore(elts[e].versionAtOpen, <<0, 7, 3>>)
    THEN InvalidColor
    ELSE QColorFromString(elts[e].colorAttr)

\* C35: every music element, tuplet and mark the import has built has the
\* colour that its own color attribute and the version at its open event
\* give, no colour when the attribute is absent.
C35_OwnColor == \A e \in DOMAIN elts : elts[e].color = OwnColor(e)

\* A barline of a file of version 0.8.0 was opened with the color
\* attribute "#ff0000" and has no colour.
C35_Witness ==
    \E e \in DOMAIN elts :
       /\ elts[e].musElementType = "Barline"
       /\ elts[e].colorAttr = "#ff0000"
       /\ elts[e].versionAtOpen = <<0, 8, 0>>
       /\ elts[e].color = InvalidColor

\* ---------------------------------------------------- context cursor
\* The contexts whose element is open.
OpenContexts ==
    {open[i].a.obj : i \in {k \in 1..Len(open) : open[k].kind \in ContextKinds}}

\* C36: the context cursor, when set, refers to a context whose element is
\* open: the close event of a context of any kind leaves it unset, and an
\* element opened after that close is not built on the closed context.
C36_ContextCursorOpen ==
    /\ _curContext # NULL => _curContext \in OpenContexts
    /\ (ev.type = "end" /\ ev.kind \in ContextKinds /\ ev.ret = "true")
          => _curContext = NULL

\* A lyrics context was closed and a syllable opened after it in the sheet:
\* the cursor is still on the closed context, which took the syllable.
C36_Witness ==
    /\ ev.type = "start" /\ ev.kind = "syllable" /\ ev.ret = "true"
    /\ _curContext # NULL
    /\ _curContext \notin OpenContexts
    /\ contexts[_curContext].contextType = "LyricsContext"
    /\ contexts[_curContext].syllableList = <<Len(elts)>>

\* ------------------------------------------- one object once per voice
\* The positions of voice v that hold a sign.
SignPositions(v) ==
    {i \in 1..Len(voices[v].musElementList) :
        elts[voices[v].musElementList[i]].musElementType
           \in {"Clef", "KeySignature", "TimeSignature", "Barline"}}

\* C37: no voice holds the same sign object at two positions of its
\* element sequence.
C37_SignOncePerVoice ==
    \A v \in DOMAIN voices :
       \A i \in SignPositions(v), j \in 1..Len(voices[v].musElementList) :
          i # j => voices[v].musElementList[i] # voices[v].musElementList[j]

\* One voice declared two clefs of the same type at the same time and
\* holds two objects for them; both are alive.
C37_Witness ==
    \E i, j \in 1..Len(decls) :
       /\ i < j
       /\ decls[i].kind = "clef" /\ decls[j].kind = "clef"
       /\ decls[i].voice = decls[j].voice
       /\ decls[i].ts = decls[j].ts /\ decls[i].attr = decls[j].attr
       /\ decls[i].obj # decls[j].obj
       /\ voices[decls[i].voice].musElementList
             = <<decls[i].obj, decls[j].obj>>
       /\ ~elts[decls[i].obj].deleted /\ ~elts[decls[j].obj].deleted

\* ---------------------------------------------------- the depth stack
\* One voice with a note or a rest, a tempo mark on it, length elements
\* at the root, in the voice, in the note, rest and mark, an element of
\* no known kind anywhere, and text in every element.
StackPlayables == 1
StackMarks == 1
StackOthers == 1
StackTexts == { <<"x">> }

SizeStack ==
    /\ Len(docs) <= MaxDocs
    /\ Len(sheets) <= 1
    /\ Len(contexts) <= 1
    /\ Len(voices) <= 1
    /\ Built("Note") + Built("Rest") <= StackPlayables
    /\ Built("Mark") <= StackMarks
    /\ Cardinality({i \in 1..Len(open) : open[i].kind = "annotation"})
          <= StackOthers

NextStack ==
    \/ StartDocument("") /\ SizeStack'
    \/ StartSheet("", "") /\ SizeStack'
    \/ StartStaff("", "") /\ SizeStack'
    \/ StartVoice("", "") /\ SizeStack'
    \/ StartNote("", "0", "", "") /\ InVoice /\ SizeStack'
    \/ StartRest("", "0", "") /\ InVoice /\ SizeStack'
    \/ StartMark("", "Tempo") /\ InPlayable /\ SizeStack'
    \/ \E len \in TupletLengthAttrs :
          StartPlayableLength(len) /\ LengthPlace /\ SizeStack'
    \/ StartOther("annotation", "") /\ SizeStack'
    \/ \E t \in StackTexts : Characters(t) /\ _cha = <<>>
    \/ EndMark
    \/ EndOther
    \/ EndNote
    \/ EndRest
    \/ EndVoice
    \/ EndStaff
    \/ EndSheet
    \/ EndDocument
    \/ ImportReturn

SpecStack == Init /\ [][NextStack]_vars

\* The kinds of the open elements, outermost first.
OpenKinds == [i \in 1..Len(open) |-> open[i].kind]

\* C38: while every event has succeeded the depth stack holds the kinds of
\* the open elements, outermost first, and is empty once the root element
\* has closed; the text buffer is empty after a close event; a close
\* event pops a stack that is not empty; and the top a playable-length
\* open handler sees is the kind of the element's parent.
C38_DepthMirrorsOpen ==
    /\ [](ev.ret = "true" => _depth = OpenKinds)
    /\ [](pc = "finished" => _depth = <<>>)
    /\ []((ev.type = "end" /\ ev.ret = "true") => _cha = <<>>)
    /\ [][(ev'.type = "end" /\ ev'.ret = "true")
             => (_depth # <<>> /\ _depth' = Pop(_depth))]_vars
    /\ [][IsNestedLength => Top(_depth) = Top(open).kind]_vars

\* The length element of a tempo mark on a note, seven elements deep, has
\* been closed after its text: the stack is back at the mark and the text
\* buffer is empty.
C38_Witness ==
    /\ ev.type = "end" /\ ev.kind = "playable-length" /\ ev.ret = "true"
    /\ _depth = <<"document", "sheet", "staff", "voice", "note", "mark">>
    /\ _depth = OpenKinds
    /\ _cha = <<>>
    /\ _curTempoPlayableLength = "half"
    /\ _curPlayableLength = DefaultPlayableLength

\* ------------------------------------------------- the value buffers
\* One sheet with a chord-name context and a staff with one voice: notes,
\* rests, key signatures with a nested key and chord names, each with or
\* without nested length and pitch elements, read under no version.
BufferElements == 2
BufferContexts == 2
GenderAttrs == {"minor"}

SizeBuffer ==
    /\ Len(open) <= MaxNesting
    /\ Len(docs) <= MaxDocs
    /\ Len(sheets) <= 1
    /\ Len(contexts) <= BufferContexts
    /\ Cardinality({c \in DOMAIN contexts :
                       contexts[c].contextType = "Staff"}) <= 1
    /\ Len(voices) <= 1
    /\ Len(elts) <= BufferElements
    /\ SignEvents <= BufferElements

NextBuffer ==
    \/ StartDocument("") /\ SizeBuffer'
    \/ StartSheet("", "") /\ SizeBuffer'
    \/ StartChordNameContext("", "") /\ Under({"sheet"}) /\ SizeBuffer'
    \/ StartStaff("", "") /\ Under({"sheet"}) /\ SizeBuffer'
    \/ StartVoice("", "") /\ SizeBuffer'
    \/ StartChordName("", "0", "") /\ Under({"chord-name-context"})
          /\ SizeBuffer'
    \/ StartKeySignature("", "0", "major-minor", "") /\ InVoice /\ SizeBuffer'
    \/ \E g \in GenderAttrs :
          StartDiatonicKey(g) /\ Under({"key-signature"}) /\ SizeBuffer'
    \/ \E pitch \in PitchAttrs, len \in LengthAttrs :
          StartNote("", "0", pitch, len) /\ InVoice /\ SizeBuffer'
    \/ \E len \in LengthAttrs :
          StartRest("", "0", len) /\ InVoice /\ SizeBuffer'
    \/ \E len \in MusicLengthAttrs :
          StartPlayableLength(len) /\ Under({"note", "rest"}) /\ SizeBuffer'
    \/ \E n \in NoteNameAttrs :
          StartDiatonicPitch(n)
             /\ Under({"note", "diatonic-key", "chord-name"}) /\ SizeBuffer'
    \/ EndOther
    \/ EndDiatonicKey
    \/ EndKeySignature
    \/ EndChordName
    \/ EndNote
    \/ EndRest
    \/ EndVoice
    \/ EndStaff
    \/ EndSheet
    \/ EndDocument
    \/ ImportReturn

SpecBuffer == Init /\ [][NextBuffer]_vars

\* C39: a note or rest closed in the nested shape whose markup nests no
\* playable-length element keeps the placeholder length, and a note whose
\* markup nests no diatonic-pitch element keeps the placeholder pitch.
C39_OnlyOwnBufferedValues ==
    \A e \in ClosedPlayables :
       ~InFamily05(elts[e].versionAtOpen) =>
          /\ "playable-length" \notin elts[e].nested
                => elts[e].playableLength = DefaultPlayableLength
          /\ (/\ elts[e].musElementType = "Note"
              /\ "diatonic-pitch" \notin elts[e].nested)
                => elts[e].diatonicPitch = DefaultDiatonicPitch

\* A note without nested elements has closed after a rest with a nested
\* length, and holds the length of the rest.
C39_Witness ==
    /\ ev = Event("end", "note", "true")
    /\ \E r, n \in ClosedPlayables :
          /\ elts[r].musElementType = "Rest"
          /\ elts[r].nested = {"playable-length"}
          /\ elts[n].musElementType = "Note"
          /\ elts[n].nested = {}
          /\ r < n
          /\ elts[n].playableLength = elts[r].playableLength
          /\ elts[n].playableLength # DefaultPlayableLength

\* ------------------------------------------------- discarded candidates
\* One staff with two voices whose clefs are declared anew in each voice,
\* and marks nested in the clef elements or following them.
DiscardSigns == 3
DiscardMarks == 1
DiscardMarkTypeAttrs == {"Tempo"}

SizeDiscard ==
    /\ Len(open) <= MaxNesting
    /\ Len(docs) <= MaxDocs
    /\ Len(sheets) <= 1
    /\ Len(contexts) <= 1
    /\ Len(voices) <= 2
    /\ Built("Clef") <= DiscardSigns
    /\ Built("Mark") <= DiscardMarks

NextDiscard ==
    \/ StartDocument("") /\ SizeDiscard'
    \/ StartSheet("", "") /\ SizeDiscard'
    \/ StartStaff("", "") /\ SizeDiscard'
    \/ StartVoice("", "") /\ SizeDiscard'
    \/ \E ts \in TimeStartAttrs :
          StartClef("", ts, "treble") /\ InVoice /\ SizeDiscard'
    \/ \E mt \in DiscardMarkTypeAttrs :
          StartMark("", mt) /\ Under({"voice", "clef"}) /\ SizeDiscard'
    \/ EndMark
    \/ EndClef
    \/ EndVoice
    \/ EndStaff
    \/ EndSheet
    \/ EndDocument
    \/ ImportReturn

SpecDiscard == Init /\ [][NextDiscard]_vars

\* The candidates a sign close event has discarded.
Discarded == {e \in DOMAIN elts : elts[e].deleted}

\* C40: while the import parses, neither the generic cursor, nor the
\* previous-element cursor, nor a sign cursor refers to a discarded
\* candidate, and no mark is attached to a discarded candidate, whether it
\* was attached before the candidate was discarded or after.
C40_NoUseOfDiscarded ==
    /\ pc = "parsing" =>
          \A c \in {_curMusElt, _prevMusElt, _curClef, _curKeySig,
                    _curTimeSig, _curBarline} : c \notin Discarded
    /\ \A m \in Range(MarksBuilt) : elts[m].associatedElt \notin Discarded

\* The close event of a clef has discarded its candidate, and a mark
\* opened next in the voice is attached to the discarded candidate.
C40_Witness ==
    /\ ev = Event("start", "mark", "true")
    /\ decls # <<>>
    /\ decls[Len(decls)].cand # decls[Len(decls)].obj
    /\ elts[_curMark].associatedElt = decls[Len(decls)].cand
    /\ decls[Len(decls)].cand \in Discarded
    /\ Top(open).kind = "mark"
    /\ open[Len(open) - 1].kind = "voice"

====
